---- MODULE Spec2Model ----
(***************************************************************************)
(* Presentation Intelligence Tool: the request handlers of app.py          *)
(* (analyze, api_analyze), the web resource fetcher of web_scraper.py, the *)
(* file downloader of url_downloader.py, the extractors of                 *)
(* document_parser.py and the generation client of ai_client.py /          *)
(* ai_analyzer.py.                                                         *)
(*                                                                         *)
(* Text is a sequence of tokens.  A token is one character (" ", "a") or   *)
(* an atomic literal of the source ("=== SLIDE DECK CONTENT ===", "-->").  *)
(* A token of a document never equals a literal the handler inserts.       *)
(***************************************************************************)
EXTENDS Integers, Sequences, FiniteSets, TLC

\* ------------------------------------------------------------------ bounds
\* Requests that may be in flight at once in the concurrent specification.
MaxReqs == 2
\* Seconds of wall clock a request may read at app.py:90.
MaxClock == 2
\* Longest resource URL list a request supplies.
MaxUrls == 2

\* --------------------------------------------------------- program constants
\* web_scraper.py:65  content[:10000]
ContentCap == 10000

ALLOWED_DECK_EXTENSIONS == {"pdf", "pptx"}
ALLOWED_TRANSCRIPT_EXTENSIONS == {"txt", "vtt"}
DownloadSuffixes == {"pdf", "pptx"}

LabelDeck == "=== SLIDE DECK CONTENT ==="
LabelTranscript == "=== PRESENTATION TRANSCRIPT ==="
Sep == "\n\n"

\* ------------------------------------------------------------ text helpers
Whitespace == {" ", "\n"}

Digits == {"0", "1", "2", "3", "4", "5", "6", "7", "8", "9"}

RECURSIVE LStrip(_)
LStrip(s) == IF s # <<>> /\ Head(s) \in Whitespace THEN LStrip(Tail(s)) ELSE s

RECURSIVE RStrip(_)
RStrip(s) ==
    IF s # <<>> /\ s[Len(s)] \in Whitespace
    THEN RStrip(SubSeq(s, 1, Len(s) - 1)) ELSE s

\* a strip that trims nothing: a faulty variant
Strip_TrimsNothing(s) == s

\* str.strip()
Strip(s) == RStrip(LStrip(s))

\* str.lower() on the tokens the model uses
LowerTok(t) ==
    CASE t = "PDF" -> "pdf"
      [] t = "PPTX" -> "pptx"
      [] OTHER -> t

Lower(s) == [i \in 1..Len(s) |-> LowerTok(s[i])]

\* index of the last "." of a name, 0 when it has none
RECURSIVE LastDot(_, _)
LastDot(s, i) == IF i = 0 THEN 0 ELSE IF s[i] = "." THEN i ELSE LastDot(s, i - 1)

HasDot(s) == LastDot(s, Len(s)) > 0

\* filename.rsplit('.', 1)[1].lower(), for a name that has a dot: the one
\* token after the last dot ("" when nothing follows it)
ExtOf(s) == IF LastDot(s, Len(s)) = Len(s) - 1 THEN LowerTok(s[Len(s)]) ELSE ""

\* '.' in filename and filename.rsplit('.', 1)[1].lower() in ALLOWED_DECK_EXTENSIONS
AllowedIn(name, exts) == HasDot(name) /\ ExtOf(name) \in exts

allowed_deck_file(name) == AllowedIn(name, ALLOWED_DECK_EXTENSIONS)

allowed_transcript_file(name) == AllowedIn(name, ALLOWED_TRANSCRIPT_EXTENSIONS)

\* werkzeug secure_filename as app.py:107 uses it: non-ASCII characters are
\* dropped, then leading and trailing "." are stripped.
NonAscii == {"NONASCII"}

RECURSIVE DropNonAscii(_)
DropNonAscii(s) ==
    IF s = <<>> THEN <<>>
    ELSE IF Head(s) \in NonAscii THEN DropNonAscii(Tail(s))
    ELSE <<Head(s)>> \o DropNonAscii(Tail(s))

RECURSIVE LStripDots(_)
LStripDots(s) == IF s # <<>> /\ Head(s) = "." THEN LStripDots(Tail(s)) ELSE s

RECURSIVE RStripDots(_)
RStripDots(s) ==
    IF s # <<>> /\ s[Len(s)] = "."
    THEN RStripDots(SubSeq(s, 1, Len(s) - 1)) ELSE s

secure_filename(name) == RStripDots(LStripDots(DropNonAscii(name)))

\* sep.join(parts) for parts a sequence of texts
RECURSIVE Join(_, _)
Join(parts, sep) ==
    IF parts = <<>> THEN <<>>
    ELSE IF Len(parts) = 1 THEN parts[1]
    ELSE parts[1] \o <<sep>> \o Join(Tail(parts), sep)

\* ------------------------------------------------------------- file system
\* The upload folder: a function from the paths that exist to their files.
\* A file is [ok, units]: ok is whether the parser its extension routes to
\* can open it; units are its pages (one text each), its slides (the texts
\* of the slide's shapes) or its lines (one text each).
NoFiles == [q \in {} |-> 0]

Exists(fsys, p) == p \in DOMAIN fsys

WriteFile(fsys, p, f) ==
    [q \in (DOMAIN fsys) \cup {p} |-> IF q = p THEN f ELSE fsys[q]]

\* os.remove(p)
RemoveFile(fsys, p) == [q \in (DOMAIN fsys) \ {p} |-> fsys[q]]

\* for f in files_to_cleanup: if os.path.exists(f): os.remove(f)
RECURSIVE Cleanup(_, _)
Cleanup(fsys, files) ==
    IF files = <<>> THEN fsys
    ELSE Cleanup(IF Exists(fsys, Head(files)) THEN RemoveFile(fsys, Head(files))
                 ELSE fsys, Tail(files))

\* what a write that fails part-way leaves behind
PartialFile == [ok |-> FALSE, units |-> <<>>]

\* -------------------------------------------------------------- extractors
ExtractError(msg) == [text |-> <<>>, error |-> msg, has_error |-> TRUE]

ExtractOk(text) == [text |-> text, error |-> "", has_error |-> FALSE]

\* extract_from_pdf: pages with non-whitespace text, each under its marker
RECURSIVE PdfBlocks(_, _)
PdfBlocks(units, n) ==
    IF n > Len(units) THEN <<>>
    ELSE LET page_text == units[n][1]
         IN  (IF Strip(page_text) # <<>>
              THEN << <<"--- Page ", ToString(n), " ---\n">> \o page_text >>
              ELSE <<>>) \o PdfBlocks(units, n + 1)

extract_from_pdf(fsys, p) ==
    IF ~Exists(fsys, p) \/ ~fsys[p].ok THEN ExtractError("pdf parse error")
    ELSE ExtractOk(Join(PdfBlocks(fsys[p].units, 1), Sep))

\* shapes of one slide whose text is not blank
RECURSIVE SlideText(_)
SlideText(shapes) ==
    IF shapes = <<>> THEN <<>>
    ELSE (IF Strip(Head(shapes)) # <<>> THEN <<Head(shapes)>> ELSE <<>>)
         \o SlideText(Tail(shapes))

RECURSIVE PptxBlocks(_, _)
PptxBlocks(units, n) ==
    IF n > Len(units) THEN <<>>
    ELSE LET slide_text == SlideText(units[n])
         IN  (IF slide_text # <<>>
              THEN << <<"--- Slide ", ToString(n), " ---\n">>
                      \o Join(slide_text, "\n") >>
              ELSE <<>>) \o PptxBlocks(units, n + 1)

extract_from_pptx(fsys, p) ==
    IF ~Exists(fsys, p) \/ ~fsys[p].ok THEN ExtractError("pptx parse error")
    ELSE ExtractOk(Join(PptxBlocks(fsys[p].units, 1), Sep))

\* the lines of a transcript file, as content.split('\n') gives them
FileLines(f) == [i \in 1..Len(f.units) |-> f.units[i][1]]

\* the VTT branch of extract_from_transcript: the loop over the lines
RECURSIVE VttLoop(_, _)
VttLoop(lines, skip_next) ==
    IF lines = <<>> THEN <<>>
    ELSE LET line == Strip(Head(lines))
             rest == Tail(lines)
         IN  IF line # <<>> /\ line[1] = "WEBVTT" THEN VttLoop(rest, skip_next)
             ELSE IF \E i \in 1..Len(line) : line[i] = "-->"
                  THEN VttLoop(rest, FALSE)
             ELSE IF line # <<>> /\ ~skip_next /\ line[1] \in Digits
                     /\ ~(\E i \in 1..Len(line) : line[i] = ":")
                  THEN VttLoop(rest, TRUE)
             ELSE IF line # <<>> /\ line[1] # "NOTE"
                  THEN <<line>> \o VttLoop(rest, FALSE)
             ELSE VttLoop(rest, skip_next)

VttClean(lines) == Join(VttLoop(lines, FALSE), "\n")

\* is_vtt is read off the path's extension, not off the file_type argument
extract_from_transcript(fsys, p) ==
    IF ~Exists(fsys, p) \/ ~fsys[p].ok THEN ExtractError("transcript read error")
    ELSE IF HasDot(p) /\ ExtOf(p) = "vtt" THEN ExtractOk(VttClean(FileLines(fsys[p])))
    ELSE ExtractOk(Join(FileLines(fsys[p]), "\n"))

\* an unsupported type answered with an empty text and no error: a faulty
\* variant
extract_content_SilentOnUnknown(fsys, p, file_type) ==
    LET t == LowerTok(file_type)
    IN  IF t = "pdf" THEN extract_from_pdf(fsys, p)
        ELSE IF t \in {"pptx", "ppt"} THEN extract_from_pptx(fsys, p)
        ELSE IF t \in {"txt", "vtt"} THEN extract_from_transcript(fsys, p)
        ELSE ExtractOk(<<>>)

\* extract_content: routes on the lower-cased file type
extract_content(fsys, p, file_type) ==
    LET t == LowerTok(file_type)
    IN  IF t = "pdf" THEN extract_from_pdf(fsys, p)
        ELSE IF t \in {"pptx", "ppt"} THEN extract_from_pptx(fsys, p)
        ELSE IF t \in {"txt", "vtt"} THEN extract_from_transcript(fsys, p)
        ELSE ExtractError("Unsupported file type")

\* -------------------------------------------------------------------- URLs
\* A URL is a token sequence: an optional scheme-and-host token, then path
\* tokens ("/", names, ".", extensions), then an optional query token.
NetlocTokens == {"http://h"}
QueryTokens == {"?q"}

\* urlparse(url).path
RECURSIVE UntilQuery(_)
UntilQuery(s) ==
    IF s = <<>> \/ Head(s) \in QueryTokens THEN <<>>
    ELSE <<Head(s)>> \o UntilQuery(Tail(s))

UrlPath(u) ==
    UntilQuery(IF u # <<>> /\ Head(u) \in NetlocTokens THEN Tail(u) ELSE u)

RECURSIVE LastSlash(_, _)
LastSlash(s, i) == IF i = 0 THEN 0 ELSE IF s[i] = "/" THEN i ELSE LastSlash(s, i - 1)

\* os.path.basename
Basename(path) == SubSeq(path, LastSlash(path, Len(path)) + 1, Len(path))

\* any(filename.lower().endswith(ext) for ext in ['.pdf', '.pptx'])
HasDownloadSuffix(name) ==
    /\ Len(name) >= 2
    /\ name[Len(name) - 1] = "."
    /\ LowerTok(name[Len(name)]) \in DownloadSuffixes

DownloadFailed(fsys, msg) ==
    [success |-> FALSE, file_path |-> <<>>, filename |-> <<>>, error |-> msg,
     fs |-> fsys, wrote |-> {}]

\* download_file_from_url(url, UPLOAD_FOLDER): net is what the network does
\* ("ok", "timeout", "http_error", or "stream_error" when the body breaks
\* off after the file was opened), body the file the server sends.  The
\* result carries the upload folder afterwards and the paths written.
DownloadOutcomes == {"ok", "timeout", "http_error", "stream_error"}

download_file_from_url(fsys, url, net, body) ==
    LET filename == Basename(UrlPath(url))
    IN  IF filename = <<>> \/ ~HasDownloadSuffix(filename)
        THEN DownloadFailed(fsys, "URL must point to a PDF or PPTX file")
        ELSE IF net = "timeout" THEN DownloadFailed(fsys, "Request timed out")
        ELSE IF net = "http_error" THEN DownloadFailed(fsys, "Failed to download file")
        ELSE IF net = "stream_error"
        THEN [DownloadFailed(WriteFile(fsys, filename, PartialFile),
                             "Failed to download file")
              EXCEPT !.wrote = {filename}]
        ELSE [success |-> TRUE, file_path |-> filename, filename |-> filename,
              error |-> "", fs |-> WriteFile(fsys, filename, body),
              wrote |-> {filename}]

\* ------------------------------------------------------------ web fetcher
\* A long text is kept run-length encoded: Run(n) is n copies of one
\* character, so that a page of 50,000 characters is one small value.
Run(n) == [ch |-> "x", n |-> n]

RunLen(t) == t.n

\* t[:k]
RunPrefix(t, k) == [ch |-> t.ch, n |-> IF t.n < k THEN t.n ELSE k]

\* An entry of a URL list is a JSON value: a string or something else.
Str(v) == [t |-> "str", v |-> v]

NotStr == [t |-> "num", v |-> <<>>]

\* What the network answers to one GET: a page, or a failure.
\* title is "absent" (no title element), "empty" (a title element without
\* text, whose .string is None) or "text".
PageTitle == <<"T">>

NetPage(title, n) == [kind |-> "ok", title |-> title, n |-> n]

NetFail(kind) == [kind |-> kind, title |-> "absent", n |-> 0]

FailKinds == {"timeout", "request_error", "unexpected"}

\* a title is a string or None
SomeStr(v) == [none |-> FALSE, s |-> v]

NoneStr == [none |-> TRUE, s |-> <<>>]

\* fetch_url_content without the cap of line 65: a faulty variant
fetch_url_content_NoCap(url, net) ==
    IF net.kind = "ok"
    THEN [success |-> TRUE, url |-> url,
          title |-> IF net.title = "absent" THEN SomeStr(url)
                    ELSE IF net.title = "empty" THEN NoneStr
                    ELSE SomeStr(PageTitle),
          content |-> Run(net.n),
          error |-> ""]
    ELSE [success |-> FALSE, url |-> url, title |-> SomeStr(<<>>),
          content |-> Run(0),
          error |-> IF net.kind = "timeout" THEN "Request timed out"
                    ELSE IF net.kind = "request_error" THEN "Failed to fetch"
                    ELSE "Unexpected error"]

\* fetch_url_content(url): every exception is caught and turned into a result
fetch_url_content(url, net) ==
    IF net.kind = "ok"
    THEN [success |-> TRUE, url |-> url,
          title |-> IF net.title = "absent" THEN SomeStr(url)
                    ELSE IF net.title = "empty" THEN NoneStr
                    ELSE SomeStr(PageTitle),
          content |-> RunPrefix(Run(net.n), ContentCap),
          error |-> ""]
    ELSE [success |-> FALSE, url |-> url, title |-> SomeStr(<<>>),
          content |-> Run(0),
          error |-> IF net.kind = "timeout" THEN "Request timed out"
                    ELSE IF net.kind = "request_error" THEN "Failed to fetch"
                    ELSE "Unexpected error"]

\* fetch_multiple_urls, lines 131-132: the loop's variables.  i is the
\* position of the next entry; attempts logs every GET issued (the URL
\* requested, the position of the entry it came from, what the network
\* answered and whether fetch_url_content reported success); raised is set
\* when the loop body raises, which ends the call.
FetchStart(urls) ==
    [urls |-> urls, i |-> 1, resources |-> <<>>, failed_urls |-> <<>>,
     attempts |-> <<>>, raised |-> FALSE]

\* the loop body leaving the loop at the first URL that fails: a faulty
\* variant
FetchBody_AbortsOnFailure(st, net) ==
    LET url == st.urls[st.i]
    IN  IF url.t # "str" THEN [st EXCEPT !.raised = TRUE]
        ELSE LET result == fetch_url_content(Strip(url.v), net)
                 st1 == [st EXCEPT !.i = st.i + 1,
                                   !.attempts = Append(st.attempts,
                                       [url |-> Strip(url.v), pos |-> st.i,
                                        net |-> net, ok |-> result.success])]
             IN  IF result.success
                 THEN [st1 EXCEPT !.resources = Append(st.resources,
                           [url |-> result.url, title |-> result.title,
                            content |-> result.content])]
                 ELSE [st1 EXCEPT !.failed_urls = Append(st.failed_urls, url),
                                  !.i = Len(st.urls) + 1]

\* the loop body putting each new resource first: a faulty variant
FetchBody_Prepends(st, net) ==
    LET url == st.urls[st.i]
    IN  IF url.t # "str" THEN [st EXCEPT !.raised = TRUE]
        ELSE LET result == fetch_url_content(Strip(url.v), net)
                 st1 == [st EXCEPT !.i = st.i + 1,
                                   !.attempts = Append(st.attempts,
                                       [url |-> Strip(url.v), pos |-> st.i,
                                        net |-> net, ok |-> result.success])]
             IN  IF result.success
                 THEN [st1 EXCEPT !.resources =
                           <<[url |-> result.url, title |-> result.title,
                              content |-> result.content]>> \o st.resources]
                 ELSE [st1 EXCEPT !.failed_urls = Append(st.failed_urls, url)]

\* one pass of the loop body, lines 134-144
FetchBody(st, net) ==
    LET url == st.urls[st.i]
    IN  IF url.t # "str" THEN [st EXCEPT !.raised = TRUE]
        ELSE LET result == fetch_url_content(Strip(url.v), net)
                 st1 == [st EXCEPT !.i = st.i + 1,
                                   !.attempts = Append(st.attempts,
                                       [url |-> Strip(url.v), pos |-> st.i,
                                        net |-> net, ok |-> result.success])]
             IN  IF result.success
                 THEN [st1 EXCEPT !.resources = Append(st.resources,
                           [url |-> result.url, title |-> result.title,
                            content |-> result.content])]
                 ELSE [st1 EXCEPT !.failed_urls = Append(st.failed_urls, url)]

FetchLoopDone(st) == st.i > Len(st.urls)

\* the return value with success hard-wired: a faulty variant
FetchResult_AlwaysSuccess(st) ==
    [success |-> TRUE, resources |-> st.resources,
     failed_urls |-> st.failed_urls,
     summary |-> IF st.resources # <<>> THEN "fetched" ELSE "none fetched"]

\* the value fetch_multiple_urls returns, lines 121-127 and 146-161
FetchResult(st) ==
    IF st.urls = <<>>
    THEN [success |-> TRUE, resources |-> <<>>, failed_urls |-> <<>>,
          summary |-> ""]
    ELSE [success |-> Len(st.resources) > 0 \/ Len(st.urls) = 0,
          resources |-> st.resources,
          failed_urls |-> st.failed_urls,
          summary |-> IF st.resources # <<>> THEN "fetched" ELSE "none fetched"]

\* ------------------------------------------------------ generation client
Providers == {"anthropic", "openai", "google", "ollama", "xai"}

\* the xAI client, built on the OpenAI package, reading OpenAI's variable:
\* a faulty variant
KeyVar_XaiReadsOpenAI(p) ==
    CASE p = "anthropic" -> "ANTHROPIC_API_KEY"
      [] p = "openai" -> "OPENAI_API_KEY"
      [] p = "google" -> "GOOGLE_API_KEY"
      [] p = "xai" -> "OPENAI_API_KEY"
      [] OTHER -> ""

\* the credential variable each _init_* looks up ("" where none is needed)
KeyVar(p) ==
    CASE p = "anthropic" -> "ANTHROPIC_API_KEY"
      [] p = "openai" -> "OPENAI_API_KEY"
      [] p = "google" -> "GOOGLE_API_KEY"
      [] p = "xai" -> "XAI_API_KEY"
      [] OTHER -> ""

KeyVars == {"ANTHROPIC_API_KEY", "OPENAI_API_KEY", "GOOGLE_API_KEY", "XAI_API_KEY"}

\* the default model of each _generate_*
DefaultModel(p) ==
    CASE p = "anthropic" -> "claude-sonnet-4-20250514"
      [] p = "openai" -> "gpt-4o"
      [] p = "google" -> "gemini-1.5-pro"
      [] p = "ollama" -> "llama3.1"
      [] p = "xai" -> "grok-beta"
      [] OTHER -> ""

\* str.lower() of a provider identifier
LowerProvider(p) == IF p = "OpenAI" THEN "openai" ELSE p

\* The process environment: AI_PROVIDER ("" when unset), the credential
\* variables that are set, and whether the provider's package imports.
Env(provider, keys, installed) ==
    [AI_PROVIDER |-> provider, keys |-> keys, installed |-> installed]

\* names is the set of identifiers (providers, variables, packages) that
\* the message of the exception raised spells out.
NoClient ==
    [constructed |-> FALSE, provider |-> "", error |-> "", raised |-> "",
     names |-> {}]

ClientError(p, kind, msg, names) ==
    [constructed |-> FALSE, provider |-> p, error |-> msg, raised |-> kind,
     names |-> names]

\* the package each _init_* imports
Package(p) ==
    CASE p = "anthropic" -> "anthropic"
      [] p = "google" -> "google-generativeai"
      [] p = "ollama" -> "ollama"
      [] OTHER -> "openai"

\* AIClient.__init__ and _initialize_client with the _init_* it calls:
\* the client object, or the exception the constructor raises
AIClient(provider, env) ==
    LET given == IF provider # "" THEN provider ELSE env.AI_PROVIDER
        p == LowerProvider(given)
    IN  IF given = ""
        THEN ClientError("", "ValueError",
                 "AI_PROVIDER environment variable is required. Please set it to one of: anthropic, openai, google, ollama, xai",
                 {"AI_PROVIDER", "anthropic", "openai", "google", "ollama", "xai"})
        ELSE IF p \notin Providers
        THEN ClientError(p, "ValueError", "Unsupported AI provider: " \o p, {p})
        ELSE IF ~env.installed
        THEN ClientError(p, "ImportError",
                 Package(p) \o " package not installed. Run: uv add " \o Package(p),
                 {Package(p)})
        ELSE IF KeyVar(p) # "" /\ KeyVar(p) \notin env.keys
        THEN ClientError(p, "ValueError",
                 KeyVar(p) \o " not found in environment variables",
                 {KeyVar(p)})
        ELSE [constructed |-> TRUE, provider |-> p, error |-> "", raised |-> "",
              names |-> {}]

\* What the provider's SDK call does: it returns a text or raises an error
\* that carries a message.
CallReturns(text) == [raises |-> FALSE, text |-> text, msg |-> ""]

CallRaises(msg) == [raises |-> TRUE, text |-> "", msg |-> msg]

\* the _generate_* of the client's provider: not caught here
ProviderGenerate(client, call) ==
    IF call.raises
    THEN [raised |-> TRUE, msg |-> call.msg, success |-> FALSE, text |-> "",
          provider |-> "", model |-> "", error |-> ""]
    ELSE [raised |-> FALSE, msg |-> "", success |-> TRUE, text |-> call.text,
          provider |-> client.provider, model |-> DefaultModel(client.provider),
          error |-> ""]

\* generate without its try / except: a faulty variant
generate_NoTry(client, call) == ProviderGenerate(client, call)

\* AIClient.generate: the dispatch inside try / except Exception
generate(client, call) ==
    LET r == ProviderGenerate(client, call)
    IN  IF r.raised
        THEN [raised |-> FALSE, msg |-> "", success |-> FALSE, text |-> "",
              provider |-> client.provider, model |-> "", error |-> r.msg]
        ELSE r

\* analyze_presentation: env is the process environment, template_found
\* whether load_prompt_template resolves the id, prompt_raises whether
\* building the prompt raises, call what the provider's SDK call does.
\* generate_calls counts the calls of AIClient.generate it made.
AnalysisFailed(msg, calls) ==
    [raised |-> FALSE, raw_response |-> "", success |-> FALSE, error |-> msg,
     provider |-> "", model |-> "", generate_calls |-> calls]

\* analyze_presentation without its try / except: a faulty variant
analyze_presentation_NoTry(env, template_found, prompt_raises, call) ==
    LET client == AIClient(env.AI_PROVIDER, env)
        response == generate(client, call)
    IN  IF ~client.constructed
        THEN [AnalysisFailed(client.error, 0) EXCEPT !.raised = TRUE]
        ELSE IF prompt_raises
        THEN [AnalysisFailed("prompt error", 0) EXCEPT !.raised = TRUE]
        ELSE IF ~response.success
        THEN [AnalysisFailed(response.error, 1) EXCEPT !.raised = TRUE]
        ELSE [raised |-> FALSE, raw_response |-> response.text, success |-> TRUE,
              error |-> "", provider |-> response.provider,
              model |-> response.model, generate_calls |-> 1]

\* analyze_presentation calling generate again after a failed response: a
\* faulty variant
analyze_presentation_Retries(env, template_found, prompt_raises, call) ==
    LET client == AIClient(env.AI_PROVIDER, env)
        response == generate(client, call)
    IN  IF ~client.constructed THEN AnalysisFailed(client.error, 0)
        ELSE IF prompt_raises THEN AnalysisFailed("prompt error", 0)
        ELSE IF ~response.success THEN AnalysisFailed(response.error, 2)
        ELSE [raised |-> FALSE, raw_response |-> response.text, success |-> TRUE,
              error |-> "", provider |-> response.provider,
              model |-> response.model, generate_calls |-> 1]

analyze_presentation(env, template_found, prompt_raises, call) ==
    LET client == AIClient(env.AI_PROVIDER, env)
        response == generate(client, call)
    IN  IF ~client.constructed THEN AnalysisFailed(client.error, 0)
        ELSE IF prompt_raises THEN AnalysisFailed("prompt error", 0)
        ELSE IF ~response.success THEN AnalysisFailed(response.error, 1)
        ELSE [raised |-> FALSE, raw_response |-> response.text, success |-> TRUE,
              error |-> "", provider |-> response.provider,
              model |-> response.model, generate_calls |-> 1]

\* ---------------------------------------------------------- prompt builders
\* A prompt is a sequence of lines and a line a sequence of string tokens
\* (the string the code returns, split at its newlines).  A template is the
\* dict load_prompt_template returns: role, task_description (with the
\* placeholders str.format fills), sections, closing.  A section holds an
\* optional title, an optional instruction and subsections; a subsection
\* holds a title (whose absence raises KeyError at line 97) and an optional
\* instruction.
Subsection(has_title, title, has_instruction) ==
    [has_title |-> has_title, title |-> title,
     has_instruction |-> has_instruction, instruction |-> "about " \o title]

TemplateSection(has_title, title, has_instruction, subsections) ==
    [has_title |-> has_title, title |-> title,
     has_instruction |-> has_instruction, instruction |-> "about " \o title,
     subsections |-> subsections]

\* load_prompt_template returned None
NoTemplate ==
    [found |-> FALSE, has_role |-> FALSE, role |-> "", task_description |-> <<>>,
     sections |-> <<>>, has_closing |-> FALSE, closing |-> ""]

\* What a builder returns: the prompt's lines, or the exception it raised.
Built(lines) == [raised |-> FALSE, lines |-> lines]

BuildRaised == [raised |-> TRUE, lines |-> <<>>]

\* build_section with the subsections left out: a faulty variant
build_section_NoSubsections(section) ==
    LET head == (IF section.has_title
                 THEN << <<>>, <<"## ", section.title>> >> ELSE <<>>)
                \o (IF section.has_instruction
                    THEN << <<section.instruction>> >> ELSE <<>>)
    IN  Built(IF head = <<>> THEN << <<>> >> ELSE head)

\* lines 96-99: the loop over section['subsections']
RECURSIVE SubsectionLines(_)
SubsectionLines(subs) ==
    IF subs = <<>> THEN Built(<<>>)
    ELSE LET rest == SubsectionLines(Tail(subs))
             s == subs[1]
         IN  IF ~s.has_title \/ rest.raised THEN BuildRaised
             ELSE Built(<< <<>>, <<"### ", s.title>> >>
                        \o (IF s.has_instruction
                            THEN << <<s.instruction>> >> ELSE <<>>)
                        \o rest.lines)

\* build_section(section) with indent 0: '\n'.join(lines), which is one
\* empty line when nothing was appended
build_section(section) ==
    LET head == (IF section.has_title
                 THEN << <<>>, <<"## ", section.title>> >> ELSE <<>>)
                \o (IF section.has_instruction
                    THEN << <<section.instruction>> >> ELSE <<>>)
        subs == SubsectionLines(section.subsections)
    IN  IF subs.raised THEN BuildRaised
        ELSE Built(IF head \o subs.lines = <<>> THEN << <<>> >>
                   ELSE head \o subs.lines)

\* What the caller passes to a builder.  additional_resources is None or a
\* list of the records fetch_url_content returned.
PromptInput(slide_content, github_url, additional_resources) ==
    [title |-> <<"T">>, presenters |-> <<"P">>, user_notes |-> <<"N">>,
     slide_content |-> slide_content, github_url |-> github_url,
     additional_resources |-> additional_resources]

\* bool(additional_resources): neither None nor an empty list
Truthy(l) == ~l.none /\ l.list # <<>>

\* f"{resource['title']}" and f"{resource['content']}"
TitleText(t) == IF t.none THEN <<"None">> ELSE t.s

ContentText(c) == <<c.ch, "*", ToString(c.n)>>

\* the lines one resource adds to resources_section
ResourceLines(i, resource) ==
    << <<>>,
       <<"--- Resource ", ToString(i), ": ">> \o TitleText(resource.title)
           \o <<" ---">>,
       <<"URL: ">> \o resource.url,
       <<"Content:">>,
       ContentText(resource.content) >>

RECURSIVE ResourcesFrom(_, _)
ResourcesFrom(i, list) ==
    IF list = <<>> THEN <<>>
    ELSE ResourceLines(i, list[1]) \o ResourcesFrom(i + 1, Tail(list))

\* github_section and resources_section as both builders compute them
GithubSection(github_url) ==
    IF github_url # <<>>
    THEN << <<"- GitHub Repository: ">> \o github_url
            \o <<" (contains lab guides, code samples, and related materials)">>,
            <<>> >>
    ELSE << <<>> >>

ResourcesSection(additional_resources) ==
    IF Truthy(additional_resources)
    THEN << <<>>, <<>>, <<"ADDITIONAL RESOURCES PROVIDED:">> >>
         \o ResourcesFrom(1, additional_resources.list) \o << <<>> >>
    ELSE <<>>

FocusOnResources ==
    " Focus on the information provided in the resource URLs since no slide deck was provided."

ComplementSlides ==
    " Consider how the additional resources (lab guides, documentation, articles, etc.) complement and expand upon the presentation content."

\* the fields with every deck taken as present: a faulty variant
TemplateFields_AlwaysSlides(i) ==
    [has_slides |-> TRUE,
     content_type |-> "presentation",
     label |-> "Presenters",
     github_section |-> GithubSection(i.github_url),
     resources_section |-> ResourcesSection(i.additional_resources),
     resources_note |-> IF Truthy(i.additional_resources)
                        THEN "and the provided resources" ELSE "",
     resource_focus |-> IF Truthy(i.additional_resources)
                        THEN ComplementSlides ELSE ""]

\* build_prompt_from_template, lines 128-152 and 165: the substituted fields
TemplateFields(i) ==
    LET has_slides == i.slide_content # <<>> /\ Strip(i.slide_content) # <<>>
    IN  [has_slides |-> has_slides,
         content_type |-> IF has_slides THEN "presentation"
                          ELSE "technical content",
         label |-> IF has_slides THEN "Presenters" ELSE "Authors/Sources",
         github_section |-> GithubSection(i.github_url),
         resources_section |-> ResourcesSection(i.additional_resources),
         resources_note |-> IF Truthy(i.additional_resources)
                            THEN "and the provided resources" ELSE "",
         resource_focus |->
             IF ~has_slides /\ Truthy(i.additional_resources)
             THEN FocusOnResources
             ELSE IF Truthy(i.additional_resources) THEN ComplementSlides
             ELSE ""]

\* the fallback's fields with the label fixed: a faulty variant
FallbackFields_FixedLabel(i) == [TemplateFields(i) EXCEPT !.label = "Presenters"]

\* build_analysis_prompt, lines 33-48, 54 and 61: the substituted fields
FallbackFields(i) ==
    LET has_slides == i.slide_content # <<>> /\ Strip(i.slide_content) # <<>>
    IN  [has_slides |-> has_slides,
         content_type |-> IF has_slides THEN "presentation"
                          ELSE "technical content",
         label |-> IF has_slides THEN "Presenters" ELSE "Authors/Sources",
         github_section |-> GithubSection(i.github_url),
         resources_section |-> ResourcesSection(i.additional_resources),
         resources_note |-> IF Truthy(i.additional_resources)
                            THEN "and the provided resources" ELSE "",
         resource_focus |->
             IF ~has_slides /\ Truthy(i.additional_resources)
             THEN FocusOnResources
             ELSE IF Truthy(i.additional_resources) THEN ComplementSlides
             ELSE ""]

\* str.format on the task description: each placeholder token is replaced,
\* and a placeholder that names no keyword raises KeyError
Placeholders == {"{content_type}", "{resources_note}", "{resource_focus}"}

IsPlaceholder(tok) == tok \in Placeholders \cup {"{other}"}

FormatTok(tok, f) ==
    CASE tok = "{content_type}" -> f.content_type
      [] tok = "{resources_note}" -> f.resources_note
      [] tok = "{resource_focus}" -> f.resource_focus
      [] OTHER -> tok

Format(text, f) ==
    IF \E k \in 1..Len(text) : IsPlaceholder(text[k]) /\ text[k] \notin Placeholders
    THEN BuildRaised
    ELSE Built(<< [k \in 1..Len(text) |-> FormatTok(text[k], f)] >>)

\* lines 185-186: the loop over template['sections']
RECURSIVE SectionsLines(_)
SectionsLines(sections) ==
    IF sections = <<>> THEN Built(<<>>)
    ELSE LET first == build_section(sections[1])
             rest == SectionsLines(Tail(sections))
         IN  IF first.raised \/ rest.raised THEN BuildRaised
             ELSE Built(first.lines \o rest.lines)

StructureLine == <<"Please structure your response in the following sections:">>

\* build_prompt_from_template(template, ...)
build_prompt_from_template(template, i) ==
    LET f == TemplateFields(i)
        task == Format(template.task_description, f)
        body == SectionsLines(template.sections)
    IN  IF task.raised \/ body.raised THEN BuildRaised
        ELSE Built(
            << <<"You are a ",
                 IF template.has_role THEN template.role ELSE "technical advisor",
                 " analyzing ", f.content_type, ".">>,
               <<>>,
               <<"CONTEXT:">>,
               <<"- Title: ">> \o i.title,
               <<"- ", f.label, ": ">> \o i.presenters,
               <<"- Attendee's Personal Notes: ">> \o i.user_notes >>
            \o f.github_section
            \o (IF f.has_slides
                THEN << <<"SLIDE CONTENT EXTRACTED:">>, i.slide_content >>
                ELSE <<>>)
            \o f.resources_section
            \o << <<>>, <<"YOUR TASK:">> >>
            \o task.lines
            \o << <<>>, StructureLine >>
            \o body.lines
            \o (IF template.has_closing
                THEN << <<>>, <<template.closing>> >> ELSE <<>>))

\* build_analysis_prompt, lines 63-120: the section list of the f-string
FallbackSections(github_url) ==
    LET gh(line) == IF github_url # <<>> THEN line ELSE <<>>
    IN  << <<"## ", "EXECUTIVE SUMMARY">>,
           <<"Provide a 3-5 sentence overview of the presentation's key value and relevance.">>,
           <<>>,
           <<"## ", "KEY TECHNICAL INSIGHTS">>,
           <<"List 5-8 important technical concepts, technologies, or methodologies discussed:">>,
           <<"- [Insight 1]">>, <<"- [Insight 2]">>, <<"...">>,
           <<>>,
           gh(<<"## ", "GITHUB REPOSITORY VALUE">>),
           gh(<<"If a GitHub repository was provided, analyze how the lab guides and code samples enhance the presentation:">>),
           gh(<<"- What practical value do the labs/code provide?">>),
           gh(<<"- How can these resources be used in customer demos or POCs?">>),
           gh(<<"- What technical credibility does this add to the presentation?">>),
           <<>>,
           <<"## ", "CLIENT VALUE CONNECTIONS">>,
           <<>>,
           <<"### ", "How This Knowledge Helps Your Customers">>,
           <<"Explain 2-3 specific ways this information can solve customer problems or address their needs.">>,
           <<>>,
           <<"### ", "Trust-Building Conversation Starters">>,
           <<"Provide 3-5 specific conversation starters you can use with clients to demonstrate expertise:">>,
           <<"- [Starter 1]">>, <<"- [Starter 2]">>, <<"...">>,
           <<>>,
           <<"### ", "Problem-Solving Applications">>,
           <<"Describe 2-3 scenarios where you can apply this knowledge to customer situations.">>,
           <<>>,
           gh(<<"### ", "Hands-On Resources for Customers">>),
           gh(<<"If GitHub repo is provided, suggest 2-3 ways to leverage the lab guides or code samples with customers:">>),
           gh(<<"- Demo opportunities">>),
           gh(<<"- POC accelerators">>),
           gh(<<"- Customer self-service resources">>),
           <<>>,
           <<"## ", "PRE-SALES OPPORTUNITIES">>,
           <<>>,
           <<"### ", "Customer Tracking & Relationship Building">>,
           <<"Explain how this knowledge fits into ongoing customer relationship development.">>,
           <<>>,
           <<"### ", "Actionable Follow-Up Strategies">>,
           <<"Provide 3-4 specific actions to take based on this presentation:">>,
           <<"- [ ] [Action 1]">>, <<"- [ ] [Action 2]">>, <<"...">>,
           <<>>,
           <<"### ", "Relevant Customer Segments">>,
           <<"Identify which types of customers or industries would most benefit from this knowledge.">>,
           <<>>,
           <<"## ", "INTELLIGENT FOLLOW-UP QUESTIONS">>,
           <<"List 5-7 questions that will help you deepen your understanding and identify sales opportunities:">>,
           <<"1. [Question 1]">>, <<"2. [Question 2]">>, <<"...">>,
           <<>>,
           <<"Keep your response practical, actionable, and focused on pre-sales value.">> >>

\* build_analysis_prompt(...): the f-string of lines 50-120
build_analysis_prompt(i) ==
    LET f == FallbackFields(i)
        slides == IF f.has_slides THEN i.slide_content ELSE <<>>
    IN  Built(
            << <<"You are a pre-sales engineering advisor analyzing ",
                 f.content_type, ".">>,
               <<>>,
               <<"CONTEXT:">>,
               <<"- Title: ">> \o i.title,
               <<"- ", f.label, ": ">> \o i.presenters,
               <<"- Attendee's Personal Notes: ">> \o i.user_notes >>
            \o f.github_section
            \o << IF f.has_slides THEN <<"SLIDE CONTENT EXTRACTED:">> ELSE <<>> >>
            \o (IF f.resources_section = <<>> THEN <<slides>>
                ELSE <<slides \o f.resources_section[1]>>
                     \o Tail(f.resources_section))
            \o << <<>>, <<"YOUR TASK:">>,
                  <<"Analyze this ", f.content_type, f.resources_note,
                    " and provide insights that help a pre-sales engineer leverage this knowledge to better serve their clients and build trust.",
                    f.resource_focus>>,
                  <<>>, StructureLine, <<>> >>
            \o FallbackSections(i.github_url))

\* ------------------------------------------------------------------- state
\* req: the requests in flight, each with the locals of its handler
\*      (analyze or api_analyze) and its position pc in it
\* fs:  the upload folder
\* batch, batch_result: one direct call of fetch_multiple_urls
\* environ: the process environment (os.environ), fixed while the app runs
\* client, gen_result: one AIClient and what its generate call returned
\* extraction: one direct call of extract_content and what it returned
\* prompt_call: one prompt being built as analyze_presentation builds it
\* analysis_call: one direct call of analyze_presentation and its result
VARIABLES req, fs, batch, batch_result, environ, client, gen_result,
          extraction, prompt_call, analysis_call

vars ==
    <<req, fs, batch, batch_result, environ, client, gen_result, extraction,
      prompt_call, analysis_call>>

Reqs == 1..MaxReqs

NoList == [none |-> TRUE, list |-> <<>>]

SomeList(l) == [none |-> FALSE, list |-> l]

NoAnalysis == AnalysisFailed("", 0)

\* A request that has not arrived.  first_part is the source that comes first
\* in the submitted form; has_combined is set once line 270 has run; created
\* and touched are the paths of the upload folder the request has written,
\* and has written, read or deleted; analyze_calls counts its calls of
\* analyze_presentation.
\* no file imported from a URL yet
NoImport ==
    [next |-> "", url |-> <<>>, net |-> "", accepted |-> FALSE,
     success |-> FALSE, file_path |-> <<>>, left |-> {}]

\* no file uploaded yet
NoUpload == [label |-> "", name |-> <<>>, accepted |-> FALSE, saved |-> FALSE]

\* What a JSON answer says about the request's URLs: metadata.resources_fetched,
\* whether it has a warnings entry, and the failed_urls it lists (under
\* warnings in a 200, at top level in the 400 of line 492).
NoBody ==
    [resources_fetched |-> 0, has_warnings |-> FALSE, has_failed_urls |-> FALSE,
     failed_urls |-> <<>>]

\* the required fields as the client sent them, and whether the body they
\* came in could be read as a form or a JSON object
NoFields ==
    [body_ok |-> FALSE, title |-> Str(<<>>), presenters |-> Str(<<>>),
     notes |-> Str(<<>>)]

IdleRequest ==
    [pc |-> "idle", route |-> "", first_part |-> "", has_combined |-> FALSE,
     title |-> <<>>, presenters |-> <<>>,
     user_notes |-> <<>>, timestamp |-> 0, files_to_cleanup |-> <<>>,
     path |-> <<>>, file_ext |-> "", via |-> "",
     slide_content |-> <<>>, transcript_content |-> <<>>, combined |-> <<>>,
     resource_urls |-> <<>>, fetch |-> FetchStart(<<>>),
     fetch_result |-> FetchResult(FetchStart(<<>>)),
     fetched_resources |-> NoList, analysis |-> NoAnalysis,
     analyze_calls |-> 0, flashes |-> <<>>, response |-> "", status |-> 0,
     created |-> {}, touched |-> {},
     extract_outcome |-> "", error_branch_msg |-> "",
     last_import |-> NoImport, last_upload |-> NoUpload, given |-> NoFields,
     body |-> NoBody]

\* a direct call of fetch_multiple_urls: not made, in its loop, returned
NoBatch == [pc |-> "idle", st |-> FetchStart(<<>>)]

\* one AIClient.generate call: the SDK call's behaviour, the result, and
\* how many calls were made so far
NoGenResult ==
    [call |-> CallReturns(""), n |-> 0,
     result |-> [raised |-> FALSE, msg |-> "", success |-> FALSE, text |-> "",
                 provider |-> "", model |-> "", error |-> ""]]

\* a direct call of extract_content: not made yet
NoExtraction ==
    [called |-> FALSE, path |-> <<>>, file_type |-> "", result |-> ExtractOk(<<>>)]

\* no prompt asked for yet
NoPrompt ==
    [loaded |-> FALSE, built |-> FALSE, template |-> NoTemplate,
     inputs |-> PromptInput(<<>>, <<>>, NoList), builder |-> "",
     fields |-> TemplateFields(PromptInput(<<>>, <<>>, NoList)),
     result |-> Built(<<>>)]

\* analyze_presentation not called yet
NoAnalysisCall ==
    [called |-> FALSE, template_found |-> FALSE, prompt_raises |-> FALSE,
     call |-> CallReturns(""), result |-> NoAnalysis]

\* the app has started in one of the environments envs; nothing has arrived
InitIn(envs) ==
    /\ req = [r \in Reqs |-> IdleRequest]
    /\ fs = NoFiles
    /\ batch = NoBatch
    /\ batch_result = FetchResult(FetchStart(<<>>))
    /\ environ \in envs
    /\ client = NoClient
    /\ gen_result = NoGenResult
    /\ extraction = NoExtraction
    /\ prompt_call = NoPrompt
    /\ analysis_call = NoAnalysisCall

\* flash(msg) and return redirect(url_for('index'))
Redirect(q, msg) ==
    [q EXCEPT !.pc = "done", !.flashes = Append(@, msg), !.response = "redirect",
              !.status = 302]

\* the handler's outer except Exception: flash and redirect, nothing else
Caught(q) == Redirect(q, "An error occurred")

\* the request after the cleanup loop over files_to_cleanup
Cleaned(q, fsys) ==
    [q EXCEPT !.touched = @ \cup {q.files_to_cleanup[i] :
                 i \in {j \in 1..Len(q.files_to_cleanup) :
                            Exists(fsys, q.files_to_cleanup[j])}}]

\* ---------------------------------------------------- the form route /analyze
\* Every step takes the world W it runs in: the sets its inputs and the
\* environment's answers are drawn from.

\* [url.strip() for url in resource_urls_text.split('\n') if url.strip()]
RECURSIVE ParseUrlLines(_)
ParseUrlLines(lines) ==
    IF lines = <<>> THEN <<>>
    ELSE (IF Strip(Head(lines)) # <<>> THEN <<Str(Strip(Head(lines)))>> ELSE <<>>)
         \o ParseUrlLines(Tail(lines))

\* lines 72-91: read and validate the form, parse the resource URLs, take
\* the timestamp
FormValidate(r, W) ==
    /\ req[r].pc = "idle"
    /\ "form" \in W.routes
    /\ \E t \in W.fields, p \in W.fields, n \in W.fields,
          lines \in W.url_lines, now \in W.clock, first \in W.orders :
          LET q == [req[r] EXCEPT !.route = "form", !.first_part = first,
                                  !.given = [body_ok |-> TRUE, title |-> Str(t),
                                             presenters |-> Str(p),
                                             notes |-> Str(n)],
                                  !.title = Strip(t),
                                  !.presenters = Strip(p), !.user_notes = Strip(n)]
          IN  req' = [req EXCEPT ![r] =
                  IF q.title = <<>> \/ q.presenters = <<>> \/ q.user_notes = <<>>
                  THEN Redirect(q, "Please fill in all required fields.")
                  ELSE [q EXCEPT !.pc = "deck",
                                 !.resource_urls = ParseUrlLines(lines),
                                 !.timestamp = now]]
    /\ UNCHANGED <<fs, batch, batch_result, environ, client, gen_result, extraction, prompt_call, analysis_call>>

\* lines 94-97, 138: deck_source is neither 'upload' nor 'url', or it names
\* a source that was left empty (lines 99-101, 140-141)
DeckNone(r) ==
    /\ req[r].pc = "deck"
    /\ req' = [req EXCEPT ![r].pc = "transcript"]
    /\ UNCHANGED <<fs, batch, batch_result, environ, client, gen_result, extraction, prompt_call, analysis_call>>

\* A file saved by an upload: lines 102-115 (deck) and 184-200 (transcript).
\* save is what the file's save does: "ok", or "oserror" when the write
\* breaks off after the file was created.  cleans is whether the branch runs
\* the cleanup loop before it rejects the file type (the transcript's does).
\* last_upload records the upload: which field, the client's file name,
\* whether it passed the type check and whether save() was reached.
SaveUpload(r, W, label, allowed_exts, msg, cleans, next) ==
    \E name \in W.names, body \in W.bodies, save \in W.saves :
        LET accepted == AllowedIn(name, allowed_exts)
            filename == secure_filename(name)
            q == [req[r] EXCEPT
                     !.last_upload =
                         [label |-> label, name |-> name, accepted |-> accepted,
                          saved |-> accepted /\ HasDot(filename)]]
            p == <<ToString(q.timestamp), label>> \o filename
            saved == [q EXCEPT !.created = @ \cup {p}, !.touched = @ \cup {p}]
        IN  /\ name # <<>>
            /\ IF ~accepted
               THEN /\ req' = [req EXCEPT ![r] =
                          IF cleans THEN Redirect(Cleaned(q, fs), msg)
                          ELSE Redirect(q, msg)]
                    /\ fs' = IF cleans THEN Cleanup(fs, q.files_to_cleanup) ELSE fs
               ELSE IF ~HasDot(filename)
               THEN \* filename.rsplit('.', 1)[1] raises IndexError
                    /\ req' = [req EXCEPT ![r] = Caught(q)]
                    /\ fs' = fs
               ELSE IF save = "oserror"
               THEN /\ req' = [req EXCEPT ![r] = Caught(saved)]
                    /\ fs' = WriteFile(fs, p, PartialFile)
               ELSE /\ req' = [req EXCEPT ![r] =
                          [saved EXCEPT !.files_to_cleanup = Append(@, p),
                                        !.path = p, !.file_ext = ExtOf(filename),
                                        !.via = "upload", !.pc = next]]
                    /\ fs' = WriteFile(fs, p, body)

DeckUpload(r, W) ==
    /\ req[r].pc = "deck"
    /\ SaveUpload(r, W, "_deck_", ALLOWED_DECK_EXTENSIONS,
                  "Invalid deck file type. Only PDF and PPTX files are supported.",
                  FALSE, "deck_extract")
    /\ UNCHANGED <<batch, batch_result, environ, client, gen_result, extraction, prompt_call, analysis_call>>

\* A file imported from a URL: lines 140-159 (deck) and 225-247
\* (transcript).  cleans is whether the branch runs the cleanup loop when
\* the download failed (the transcript's does, the deck's returns at once).
\* last_import records the import: the step it leads to, the URL, what the
\* network did, whether the file was accepted for extraction, and what the
\* download returned and left in the folder.
ImportUrl(r, W, allowed_exts, msg_fail, msg_type, cleans, next) ==
    \E raw \in W.urls, net \in W.downloads, body \in W.bodies :
        LET q == req[r]
            url == Strip(raw)
            d == download_file_from_url(fs, url, net, body)
            ext == IF HasDot(d.filename) THEN ExtOf(d.filename) ELSE ""
            q1 == [q EXCEPT !.created = @ \cup d.wrote, !.touched = @ \cup d.wrote,
                            !.last_import =
                                [next |-> next, url |-> url, net |-> net,
                                 accepted |-> d.success /\ ext # ""
                                              /\ ext \in allowed_exts,
                                 success |-> d.success,
                                 file_path |-> d.file_path,
                                 left |-> d.wrote \cap DOMAIN d.fs]]
            q2 == [q1 EXCEPT !.files_to_cleanup = Append(@, d.file_path),
                             !.path = d.file_path,
                             !.file_ext = IF HasDot(d.filename)
                                          THEN ExtOf(d.filename) ELSE "",
                             !.via = "url"]
        IN  /\ url # <<>>
            /\ IF ~d.success
               THEN /\ req' = [req EXCEPT ![r] =
                          IF cleans THEN Redirect(Cleaned(q1, d.fs), msg_fail)
                          ELSE Redirect(q1, msg_fail)]
                    /\ fs' = IF cleans THEN Cleanup(d.fs, q1.files_to_cleanup)
                             ELSE d.fs
               ELSE IF q2.file_ext = "" \/ q2.file_ext \notin allowed_exts
               THEN /\ req' = [req EXCEPT ![r] = Redirect(Cleaned(q2, d.fs), msg_type)]
                    /\ fs' = Cleanup(d.fs, q2.files_to_cleanup)
               ELSE /\ req' = [req EXCEPT ![r] = [q2 EXCEPT !.pc = next]]
                    /\ fs' = d.fs

DeckUrl(r, W) ==
    /\ req[r].pc = "deck"
    /\ ImportUrl(r, W, ALLOWED_DECK_EXTENSIONS,
                 "Failed to download slide deck from URL",
                 "Invalid file type from URL. Only PDF and PPTX files are supported.",
                 FALSE, "deck_extract")
    /\ UNCHANGED <<batch, batch_result, environ, client, gen_result, extraction, prompt_call, analysis_call>>

\* Extraction of the saved or downloaded file and the checks on its result:
\* lines 117-136 and 161-173 (deck), 202-221 and 249-261 (transcript).  An
\* upload tells an extraction error from an empty text; an import does not.
\* extract_outcome records what the last extract_content of the request
\* returned ("error", "empty" or "text"), error_branch_msg the message of
\* the branch that tests 'error' in extracted at that call.
ExtractStep(r, field, msg_error, msg_empty, msg_url, next) ==
    LET extracted == extract_content(fs, req[r].path, req[r].file_ext)
        q == [req[r] EXCEPT
                 !.touched = @ \cup {req[r].path},
                 !.extract_outcome =
                     IF extracted.has_error THEN "error"
                     ELSE IF extracted.text = <<>> THEN "empty" ELSE "text",
                 !.error_branch_msg =
                     IF req[r].via = "upload" THEN msg_error ELSE msg_url]
        failed(msg) ==
            /\ req' = [req EXCEPT ![r] = Redirect(Cleaned(q, fs), msg)]
            /\ fs' = Cleanup(fs, q.files_to_cleanup)
    IN  IF q.via = "upload" /\ extracted.has_error THEN failed(msg_error)
        ELSE IF q.via = "upload" /\ extracted.text = <<>> THEN failed(msg_empty)
        ELSE IF q.via = "url" /\ (extracted.has_error \/ extracted.text = <<>>)
        THEN failed(msg_url)
        ELSE /\ req' = [req EXCEPT ![r] =
                   IF field = "slide_content"
                   THEN [q EXCEPT !.slide_content = extracted.text, !.pc = next]
                   ELSE [q EXCEPT !.transcript_content = extracted.text,
                                  !.pc = next]]
             /\ fs' = fs

DeckExtract(r) ==
    /\ req[r].pc = "deck_extract"
    /\ ExtractStep(r, "slide_content",
                   "Could not extract content from slide deck",
                   "No text could be extracted from the slide deck. The file may be image-based or empty.",
                   "Could not extract content from the downloaded slide deck.",
                   "transcript")
    /\ UNCHANGED <<batch, batch_result, environ, client, gen_result, extraction, prompt_call, analysis_call>>

\* lines 176-179, 223: no transcript source, or one left empty
TranscriptNone(r) ==
    /\ req[r].pc = "transcript"
    /\ req' = [req EXCEPT ![r].pc = "combine"]
    /\ UNCHANGED <<fs, batch, batch_result, environ, client, gen_result, extraction, prompt_call, analysis_call>>

TranscriptUpload(r, W) ==
    /\ req[r].pc = "transcript"
    /\ SaveUpload(r, W, "_transcript_", ALLOWED_TRANSCRIPT_EXTENSIONS,
                  "Invalid transcript file type. Only TXT and VTT files are supported.",
                  TRUE, "transcript_extract")
    /\ UNCHANGED <<batch, batch_result, environ, client, gen_result, extraction, prompt_call, analysis_call>>

TranscriptUrl(r, W) ==
    /\ req[r].pc = "transcript"
    /\ ImportUrl(r, W, ALLOWED_TRANSCRIPT_EXTENSIONS,
                 "Failed to download transcript from URL",
                 "Invalid file type from URL. Only TXT and VTT files are supported for transcripts.",
                 TRUE, "transcript_extract")
    /\ UNCHANGED <<batch, batch_result, environ, client, gen_result, extraction, prompt_call, analysis_call>>

TranscriptExtract(r) ==
    /\ req[r].pc = "transcript_extract"
    /\ ExtractStep(r, "transcript_content",
                   "Could not extract content from transcript",
                   "No text could be extracted from the transcript.",
                   "Could not extract content from the downloaded transcript.",
                   "combine")
    /\ UNCHANGED <<batch, batch_result, environ, client, gen_result, extraction, prompt_call, analysis_call>>

\* the parts appended in the other order: a faulty variant
CombinedParts_TranscriptFirst(slide_content, transcript_content) ==
    (IF transcript_content # <<>>
     THEN << <<LabelTranscript, Sep>> \o transcript_content >> ELSE <<>>)
    \o (IF slide_content # <<>>
        THEN << <<LabelDeck, Sep>> \o slide_content >> ELSE <<>>)

\* the deck section appended even when there is no deck text: a faulty
\* variant
CombinedParts_AlwaysDeck(slide_content, transcript_content) ==
    << <<LabelDeck, Sep>> \o slide_content >>
    \o (IF transcript_content # <<>>
        THEN << <<LabelTranscript, Sep>> \o transcript_content >> ELSE <<>>)

\* lines 263-270: the combined text
CombinedParts(slide_content, transcript_content) ==
    (IF slide_content # <<>>
     THEN << <<LabelDeck, Sep>> \o slide_content >> ELSE <<>>)
    \o (IF transcript_content # <<>>
        THEN << <<LabelTranscript, Sep>> \o transcript_content >> ELSE <<>>)

CombinedText(slide_content, transcript_content) ==
    LET combined_content_parts == CombinedParts(slide_content, transcript_content)
    IN  IF combined_content_parts # <<>> THEN Join(combined_content_parts, Sep)
        ELSE <<>>

\* lines 272-278: may the request go on to fetch and analyze?
HasContentSource(combined, resource_urls) ==
    ~(combined = <<>> /\ resource_urls = <<>>)

\* lines 263-283: combine, validate, and enter the fetch if URLs were given
Combine(r) ==
    /\ req[r].pc = "combine"
    /\ LET q == [req[r] EXCEPT !.has_combined = TRUE, !.combined =
                     CombinedText(req[r].slide_content, req[r].transcript_content)]
       IN  IF ~HasContentSource(q.combined, q.resource_urls)
           THEN /\ req' = [req EXCEPT ![r] = Redirect(Cleaned(q, fs),
                      "Please provide at least one content source: slide deck, transcript, or resource URLs.")]
                /\ fs' = Cleanup(fs, q.files_to_cleanup)
           ELSE /\ req' = [req EXCEPT ![r] =
                      IF q.resource_urls # <<>>
                      THEN [q EXCEPT !.pc = "fetch",
                                     !.fetch = FetchStart(q.resource_urls)]
                      ELSE [q EXCEPT !.pc = "analyze"]]
                /\ fs' = fs
    /\ UNCHANGED <<batch, batch_result, environ, client, gen_result, extraction, prompt_call, analysis_call>>

\* One pass of the loop of fetch_multiple_urls, called at line 284 (form) or
\* 489 (JSON).  An exception of the loop body leaves fetch_multiple_urls and
\* reaches the handler's outer except: lines 356-359, or 547-552.
ApiError(q, code, msg) ==
    [q EXCEPT !.pc = "done", !.flashes = Append(@, msg), !.response = "json",
              !.status = code]

FetchIter(r, W) ==
    /\ req[r].pc = "fetch"
    /\ ~FetchLoopDone(req[r].fetch)
    /\ \E net \in W.nets :
          LET st == FetchBody(req[r].fetch, net)
              q == [req[r] EXCEPT !.fetch = st]
          IN  req' = [req EXCEPT ![r] =
                  IF ~st.raised THEN q
                  ELSE IF q.route = "form" THEN Caught(q)
                  ELSE ApiError(q, 500, "exception")]
    /\ UNCHANGED <<fs, batch, batch_result, environ, client, gen_result, extraction, prompt_call, analysis_call>>

\* lines 284-291: fetch_multiple_urls returns to the form handler
FormFetchDone(r) ==
    /\ req[r].pc = "fetch"
    /\ req[r].route = "form"
    /\ FetchLoopDone(req[r].fetch)
    /\ LET fetch_result == FetchResult(req[r].fetch)
           q == [req[r] EXCEPT !.fetch_result = fetch_result, !.pc = "analyze"]
       IN  req' = [req EXCEPT ![r] =
               IF fetch_result.success
               THEN [q EXCEPT !.fetched_resources = SomeList(fetch_result.resources),
                              !.flashes = IF fetch_result.failed_urls # <<>>
                                          THEN Append(@, "Warning: Could not fetch some URLs")
                                          ELSE @]
               ELSE [q EXCEPT !.flashes = Append(@,
                        "Warning: Could not fetch any of the provided resource URLs")]]
    /\ UNCHANGED <<fs, batch, batch_result, environ, client, gen_result, extraction, prompt_call, analysis_call>>

\* the call of analyze_presentation in the world W
Analyses(W) ==
    {analyze_presentation(environ, found, raises, call) :
        found \in W.templates, raises \in W.prompt_raises, call \in W.calls}

\* lines 293-312: analyze, and give up with cleanup when it failed
Analyze(r, W) ==
    /\ req[r].pc = "analyze"
    /\ req[r].route = "form"
    /\ \E analysis \in Analyses(W) :
          LET q == [req[r] EXCEPT !.analysis = analysis,
                                  !.analyze_calls = @ + 1]
          IN  IF ~analysis.success
              THEN /\ req' = [req EXCEPT ![r] =
                         Redirect(Cleaned(q, fs), "Analysis failed")]
                   /\ fs' = Cleanup(fs, q.files_to_cleanup)
              ELSE /\ req' = [req EXCEPT ![r] = [q EXCEPT !.pc = "outputs"]]
                   /\ fs' = fs
    /\ UNCHANGED <<batch, batch_result, environ, client, gen_result, extraction, prompt_call, analysis_call>>

\* What create_outputs does: it returns success, returns a failure, or
\* raises.
OutputOutcomes == {"ok", "failed", "raises"}

\* lines 314-354: write the outputs, clean up, render the results page
Outputs(r, W) ==
    /\ req[r].pc = "outputs"
    /\ \E out \in W.outputs :
          LET q == req[r]
          IN  IF out = "raises"
              THEN /\ req' = [req EXCEPT ![r] = Caught(q)]
                   /\ fs' = fs
              ELSE IF out = "failed"
              THEN /\ req' = [req EXCEPT ![r] =
                         Redirect(Cleaned(q, fs), "Failed to generate output files.")]
                   /\ fs' = Cleanup(fs, q.files_to_cleanup)
              ELSE /\ req' = [req EXCEPT ![r] =
                         [Cleaned(q, fs) EXCEPT !.pc = "done",
                                                !.response = "results",
                                                !.status = 200]]
                   /\ fs' = Cleanup(fs, q.files_to_cleanup)
    /\ UNCHANGED <<batch, batch_result, environ, client, gen_result, extraction, prompt_call, analysis_call>>

\* ------------------------------------------------ the JSON route /api/v1/analyze
\* A request body: is_json is the Content-Type test, parses whether
\* get_json can decode it, is_object whether the decoded value is an object.
\* A field is a JSON value (an absent one reads as the default '');
\* urls_is_list whether resource_urls holds a list.
ApiBody(title, presenters, notes, urls) ==
    [is_json |-> TRUE, parses |-> TRUE, is_object |-> TRUE, title |-> title,
     presenters |-> presenters, notes |-> notes, github_url |-> Str(<<>>),
     prompt_template |-> Str(<<"presales_engineer">>), urls_is_list |-> TRUE,
     resource_urls |-> urls]

\* lines 435-485: parse and validate the body.  .get on a value that is not
\* an object and .strip on a value that is not a string raise; get_json
\* raises on a body it cannot decode; all reach the outer except, lines
\* 547-552.
ApiValidate(r, W) ==
    /\ req[r].pc = "idle"
    /\ "api" \in W.routes
    /\ \E data \in W.api_bodies :
          LET q == [req[r] EXCEPT
                       !.route = "api",
                       !.given = [body_ok |-> data.is_json /\ data.parses
                                              /\ data.is_object,
                                  title |-> data.title,
                                  presenters |-> data.presenters,
                                  notes |-> data.notes]]
              titled == [q EXCEPT !.title = Strip(data.title.v),
                                  !.presenters = Strip(data.presenters.v),
                                  !.user_notes = Strip(data.notes.v)]
          IN  req' = [req EXCEPT ![r] =
                  IF ~data.is_json
                  THEN ApiError(q, 400, "Content-Type must be application/json")
                  ELSE IF ~data.parses \/ ~data.is_object
                  THEN ApiError(q, 500, "exception")
                  ELSE IF data.title.t # "str" \/ data.presenters.t # "str"
                          \/ data.notes.t # "str"
                  THEN ApiError(q, 500, "exception")
                  ELSE IF titled.title = <<>>
                  THEN ApiError(titled, 400, "Missing required field: title")
                  ELSE IF titled.presenters = <<>>
                  THEN ApiError(titled, 400, "Missing required field: presenters")
                  ELSE IF titled.user_notes = <<>>
                  THEN ApiError(titled, 400, "Missing required field: notes")
                  ELSE IF data.github_url.t # "str" \/ data.prompt_template.t # "str"
                  THEN ApiError(titled, 500, "exception")
                  ELSE IF ~data.urls_is_list
                  THEN ApiError(titled, 400, "resource_urls must be an array of URLs")
                  ELSE IF data.resource_urls = <<>>
                  THEN ApiError(titled, 400,
                           "At least one resource URL is required for API analysis")
                  ELSE [titled EXCEPT !.pc = "fetch",
                                      !.resource_urls = data.resource_urls,
                                      !.fetch = FetchStart(data.resource_urls)]]
    /\ UNCHANGED <<fs, batch, batch_result, environ, client, gen_result, extraction, prompt_call, analysis_call>>

\* lines 492-496: the body of the 400 that follows a fetch without resources
FetchFailedBody(fetch_result) ==
    [resources_fetched |-> 0, has_warnings |-> FALSE, has_failed_urls |-> TRUE,
     failed_urls |-> fetch_result.failed_urls]

\* the 200's body with the warnings entry left out: a faulty variant
ResponseData_NoWarnings(fetched_resources, fetch_result) ==
    [resources_fetched |-> Len(fetched_resources), has_warnings |-> FALSE,
     has_failed_urls |-> FALSE, failed_urls |-> <<>>]

\* lines 524-543: response_data, with warnings when a URL failed
ResponseData(fetched_resources, fetch_result) ==
    IF fetch_result.failed_urls # <<>>
    THEN [resources_fetched |-> Len(fetched_resources), has_warnings |-> TRUE,
          has_failed_urls |-> TRUE, failed_urls |-> fetch_result.failed_urls]
    ELSE [resources_fetched |-> Len(fetched_resources), has_warnings |-> FALSE,
          has_failed_urls |-> FALSE, failed_urls |-> <<>>]

\* lines 489-499: fetch_multiple_urls returns to the JSON handler
ApiFetchDone(r) ==
    /\ req[r].pc = "fetch"
    /\ req[r].route = "api"
    /\ FetchLoopDone(req[r].fetch)
    /\ LET fetch_result == FetchResult(req[r].fetch)
           q == [req[r] EXCEPT !.fetch_result = fetch_result]
       IN  req' = [req EXCEPT ![r] =
               IF ~fetch_result.success \/ fetch_result.resources = <<>>
               THEN ApiError([q EXCEPT !.body = FetchFailedBody(fetch_result)], 400,
                             "Could not fetch any of the provided resource URLs")
               ELSE [q EXCEPT !.fetched_resources = SomeList(fetch_result.resources),
                              !.pc = "analyze"]]
    /\ UNCHANGED <<fs, batch, batch_result, environ, client, gen_result, extraction, prompt_call, analysis_call>>

\* lines 501-545: analyze with empty slide content and answer
ApiAnalyze(r, W) ==
    /\ req[r].pc = "analyze"
    /\ req[r].route = "api"
    /\ \E analysis \in Analyses(W) :
          LET q == [req[r] EXCEPT !.analysis = analysis,
                                  !.analyze_calls = @ + 1]
          IN  req' = [req EXCEPT ![r] =
                  IF ~analysis.success THEN ApiError(q, 500, "Analysis failed")
                  ELSE [q EXCEPT !.pc = "done", !.response = "json",
                                 !.status = 200,
                                 !.body = ResponseData(q.fetched_resources.list,
                                                       q.fetch_result)]]
    /\ UNCHANGED <<fs, batch, batch_result, environ, client, gen_result, extraction, prompt_call, analysis_call>>

\* ------------------------------------------------------------------ worlds
SeqsUpTo(S, n) == UNION {[1..k -> S] : k \in 0..n}

U1 == <<"http://h", "/", "a">>
U2 == <<"http://h", "/", "b">>

PdfName == <<"a", ".", "pdf">>
TxtName == <<"a", ".", "txt">>

UploadNames ==
    {PdfName, <<"a", ".", "PDF">>, <<"a", ".", "pptx">>, <<"a", ".", "ppt">>,
     TxtName, <<"a", ".", "vtt">>, <<"a", ".", "exe">>, <<"a">>,
     <<"NONASCII", ".", "pdf">>, <<"NONASCII", ".", "txt">>}

\* a document of one page, slide or line with the text "d"
TextBody == [ok |-> TRUE, units |-> << << <<"d">> >> >>]

\* a caption file: header, cue number, cue timing, one spoken line
VttBody ==
    [ok |-> TRUE,
     units |-> << << <<"WEBVTT">> >>, << <<"1">> >>,
                  << <<"0:1", "-->", "0:2">> >>, << <<"t">> >> >>]

\* an unreadable file, an empty document, a blank one, and the two above
Bodies == {[ok |-> FALSE, units |-> <<>>], [ok |-> TRUE, units |-> <<>>],
           [ok |-> TRUE, units |-> << << <<" ">> >> >>], TextBody, VttBody}

PdfUrl == <<"http://h", "/", "a", ".", "pdf">>

ImportUrls ==
    {PdfUrl, <<" ", "http://h", "/", "d", "/", "a", ".", "pdf", "?q">>,
     <<"http://h", "/", "b", ".", "PPTX">>, <<"http://h", "/", "t", ".", "txt">>,
     <<"http://h", "/", "t", ".", "vtt">>, <<"http://h", "/", "a", ".", "exe">>,
     <<"http://h", "/">>}

FieldValues == {<<>>, <<" ">>, <<" ", "T">>}

JsonFields == {Str(<<>>), Str(<<" ">>), Str(<<"T", " ">>), NotStr}

ApiBodies ==
    {ApiBody(t, p, n, u) : t \in JsonFields, p \in JsonFields, n \in JsonFields,
                           u \in SeqsUpTo({Str(<<" ">> \o U1), Str(U2), NotStr},
                                          MaxUrls)}
    \cup {[ApiBody(Str(<<"T">>), Str(<<"T">>), Str(<<"T">>), <<Str(U1)>>)
              EXCEPT ![f] = FALSE] :
              f \in {"is_json", "parses", "is_object", "urls_is_list"}}
    \cup {[ApiBody(Str(<<"T">>), Str(<<"T">>), Str(<<"T">>), <<Str(U1)>>)
              EXCEPT ![f] = NotStr] : f \in {"github_url", "prompt_template"}}

AllEnvs ==
    {Env(p, keys, installed) :
        p \in Providers \cup {"", "bogus", "OpenAI"}, keys \in SUBSET KeyVars,
        installed \in BOOLEAN}

\* the world of one request
World ==
    [routes |-> {"form", "api"},
     clock |-> {1},
     orders |-> {"deck", "transcript"},
     fields |-> FieldValues,
     url_lines |-> SeqsUpTo({<<>>, <<" ">> \o U1, U2}, MaxUrls),
     names |-> UploadNames,
     bodies |-> Bodies,
     saves |-> {"ok", "oserror"},
     urls |-> ImportUrls,
     downloads |-> DownloadOutcomes,
     nets |-> {NetPage("text", 1), NetPage("absent", 50000), NetFail("timeout")},
     api_bodies |-> ApiBodies,
     envs |-> {Env("", {}, TRUE), Env("anthropic", {}, TRUE),
               Env("anthropic", KeyVars, TRUE), Env("ollama", {}, TRUE)},
     templates |-> BOOLEAN,
     prompt_raises |-> BOOLEAN,
     calls |-> {CallReturns("analysis"), CallRaises("boom")},
     outputs |-> OutputOutcomes]

Init == InitIn(World.envs)

Next ==
    \E r \in {1} :
        \/ FormValidate(r, World)
        \/ DeckNone(r)
        \/ DeckUpload(r, World)
        \/ DeckUrl(r, World)
        \/ DeckExtract(r)
        \/ TranscriptNone(r)
        \/ TranscriptUpload(r, World)
        \/ TranscriptUrl(r, World)
        \/ TranscriptExtract(r)
        \/ Combine(r)
        \/ FetchIter(r, World)
        \/ FormFetchDone(r)
        \/ Analyze(r, World)
        \/ Outputs(r, World)
        \/ ApiValidate(r, World)
        \/ ApiFetchDone(r)
        \/ ApiAnalyze(r, World)

Spec == Init /\ [][Next]_vars

\* ---------------------------------------------------- concurrent requests
\* The form route with MaxReqs requests in flight at once (the development
\* server of app.py:570 serves each request on its own thread): valid
\* fields, a deck by upload or by URL, no transcript file, no resource URLs.
ConcWorld ==
    [World EXCEPT !.routes = {"form"}, !.clock = 1..MaxClock, !.orders = {"deck"},
                  !.fields = {<<"T">>}, !.url_lines = {<<>>},
                  !.names = {PdfName, TxtName}, !.bodies = {TextBody},
                  !.saves = {"ok"}, !.urls = {PdfUrl},
                  !.downloads = {"ok", "http_error"},
                  !.envs = {Env("ollama", {}, TRUE)},
                  !.templates = {TRUE}, !.prompt_raises = {FALSE},
                  !.outputs = {"ok", "failed"}]

InitConc == InitIn(ConcWorld.envs)

NextConc ==
    \E r \in Reqs :
        \/ FormValidate(r, ConcWorld)
        \/ DeckNone(r)
        \/ DeckUpload(r, ConcWorld)
        \/ DeckUrl(r, ConcWorld)
        \/ DeckExtract(r)
        \/ TranscriptNone(r)
        \/ TranscriptUpload(r, ConcWorld)
        \/ TranscriptExtract(r)
        \/ Combine(r)
        \/ Analyze(r, ConcWorld)
        \/ Outputs(r, ConcWorld)

SpecConc == InitConc /\ [][NextConc]_vars

\* ------------------------------------------- fetch_multiple_urls on its own
\* Longest URL list handed to a direct call of fetch_multiple_urls.
MaxFetchUrls == 3

\* Calls of generate made on one client.
MaxCalls == 2

PageLens == {0, ContentCap - 1, ContentCap, ContentCap + 1, 50000}

AllNets ==
    {NetPage("text", n) : n \in PageLens}
    \cup {NetPage("absent", 1), NetPage("empty", 1)}
    \cup {NetFail(k) : k \in FailKinds}

FetchInputs == SeqsUpTo({Str(<<" ">> \o U1 \o <<" ">>), Str(U2)}, MaxFetchUrls)

\* fetch_multiple_urls(urls) is called
BatchCall ==
    /\ batch.pc = "idle"
    /\ \E urls \in FetchInputs : batch' = [pc |-> "loop", st |-> FetchStart(urls)]
    /\ UNCHANGED <<req, fs, batch_result, environ, client, gen_result, extraction, prompt_call, analysis_call>>

\* one pass of its loop
BatchIter ==
    /\ batch.pc = "loop"
    /\ ~FetchLoopDone(batch.st)
    /\ \E net \in AllNets : batch' = [batch EXCEPT !.st = FetchBody(batch.st, net)]
    /\ UNCHANGED <<req, fs, batch_result, environ, client, gen_result, extraction, prompt_call, analysis_call>>

\* it returns
BatchReturn ==
    /\ batch.pc = "loop"
    /\ FetchLoopDone(batch.st)
    /\ batch' = [batch EXCEPT !.pc = "returned"]
    /\ batch_result' = FetchResult(batch.st)
    /\ UNCHANGED <<req, fs, environ, client, gen_result, extraction, prompt_call, analysis_call>>

NextFetch == BatchCall \/ BatchIter \/ BatchReturn

InitFetch == InitIn({Env("", {}, TRUE)})

SpecFetch == InitFetch /\ [][NextFetch]_vars

\* ------------------------------------------------------ AIClient on its own
ProviderArgs == Providers \cup {"", "bogus", "OpenAI"}

GenCalls == {CallReturns("analysis"), CallRaises("boom"),
             CallRaises("Request timed out.")}

InitGen == InitIn(AllEnvs)

\* AIClient(provider=arg) is constructed
Construct ==
    /\ ~client.constructed
    /\ client.raised = ""
    /\ \E arg \in ProviderArgs : client' = AIClient(arg, environ)
    /\ UNCHANGED <<req, fs, batch, batch_result, environ, gen_result, extraction, prompt_call, analysis_call>>

\* client.generate(prompt) is called
Generate ==
    /\ client.constructed
    /\ gen_result.n < MaxCalls
    /\ \E call \in GenCalls :
          gen_result' = [call |-> call, n |-> gen_result.n + 1,
                         result |-> generate(client, call)]
    /\ UNCHANGED <<req, fs, batch, batch_result, environ, client, extraction, prompt_call, analysis_call>>

NextGen == Construct \/ Generate

SpecGen == InitGen /\ [][NextGen]_vars

\* ------------------------------------ extract_content called on its own
\* Lines a file on disk may hold, by the longest file.
MaxLines == 3

\* the lines (page texts, shape texts) files are made of: blank ones, the
\* VTT header, a cue timing, numeric and named cue identifiers, a note,
\* speech, speech that starts with a digit, and speech with blanks around
FileTexts ==
    {<<>>, <<" ">>, <<"WEBVTT">>, <<"0", ":", "1", " ", "-->", " ", "0", ":", "2">>,
     <<"1">>, <<"c", "1">>, <<"NOTE", " ", "n">>, <<"h", "i">>,
     <<"3", " ", "a">>, <<" ", "h", "i">>}

ExtractFiles ==
    {[ok |-> ok, units |-> [i \in 1..Len(lines) |-> <<lines[i]>>]] :
        ok \in BOOLEAN, lines \in SeqsUpTo(FileTexts, MaxLines)}

ExtractPaths ==
    {<<"a", ".", "pdf">>, <<"a", ".", "pptx">>, <<"a", ".", "txt">>,
     <<"a", ".", "vtt">>, <<"a", ".", "VTT">>}

FileTypes == {"pdf", "PDF", "pptx", "ppt", "txt", "vtt", "exe", ""}

\* a file is put at a path of the upload folder
PutFile ==
    /\ fs = NoFiles
    /\ ~extraction.called
    /\ \E p \in ExtractPaths, f \in ExtractFiles : fs' = WriteFile(fs, p, f)
    /\ UNCHANGED <<req, batch, batch_result, environ, client, gen_result, extraction, prompt_call, analysis_call>>

\* extract_content(path, file_type) is called
ExtractCall ==
    /\ ~extraction.called
    /\ \E p \in ExtractPaths, t \in FileTypes :
          extraction' = [called |-> TRUE, path |-> p, file_type |-> t,
                         result |-> extract_content(fs, p, t)]
    /\ UNCHANGED <<req, fs, batch, batch_result, environ, client, gen_result, prompt_call, analysis_call>>

NextExtract == PutFile \/ ExtractCall

InitExtract == InitIn({Env("", {}, TRUE)})

SpecExtract == InitExtract /\ [][NextExtract]_vars

\* -------------------------------------------- the prompt, built on its own
\* Sections a template may hold, and subsections a section may hold.
MaxSections == 2

MaxSubs == 2

\* the subsections of section k: titled by position, every other one with an
\* instruction
SubsOf(k, n) ==
    [j \in 1..n |->
        Subsection(TRUE, "S" \o ToString(k) \o "." \o ToString(j), j % 2 = 1)]

TaskText ==
    <<"Analyze this ", "{content_type}", "{resources_note}", ".",
      "{resource_focus}">>

Template(sections, has_closing) ==
    [found |-> TRUE, has_role |-> TRUE, role |-> "advisor",
     task_description |-> TaskText, sections |-> sections,
     has_closing |-> has_closing, closing |-> "Keep it short."]

\* the well-formed templates: every section has or lacks a title, has or
\* lacks an instruction, and holds up to MaxSubs subsections
SectionShapes == BOOLEAN \X BOOLEAN \X (0..MaxSubs)

GoodTemplates ==
    UNION {{Template([k \in 1..n |->
                         TemplateSection(sh[k][1], "S" \o ToString(k), sh[k][2],
                                         SubsOf(k, sh[k][3]))], c) :
               sh \in [1..n -> SectionShapes], c \in BOOLEAN} :
           n \in 0..MaxSections}

\* templates that lack the role, hold a subsection without a title, or name
\* a placeholder format() is not given
OddTemplates ==
    {[Template(<<TemplateSection(TRUE, "S1", TRUE, SubsOf(1, 1))>>, TRUE)
         EXCEPT !.has_role = FALSE],
     Template(<<TemplateSection(TRUE, "S1", TRUE,
                    <<Subsection(FALSE, "", TRUE)>>)>>, TRUE),
     [Template(<<TemplateSection(TRUE, "S1", TRUE, <<>>)>>, TRUE)
         EXCEPT !.task_description = <<"Analyze ", "{other}">>]}

Templates == GoodTemplates \cup OddTemplates \cup {NoTemplate}

PromptResources ==
    {NoList, SomeList(<<>>),
     SomeList(<<fetch_url_content(U1, NetPage("text", 1))>>),
     SomeList(<<fetch_url_content(U1, NetPage("absent", 50000)),
                fetch_url_content(U2, NetPage("empty", 3))>>)}

PromptInputs ==
    {PromptInput(s, g, a) : s \in {<<>>, <<" ">>, <<" ", "s">>},
                            g \in {<<>>, <<"g">>}, a \in PromptResources}

\* ai_analyzer.py:158  template = load_prompt_template(prompt_template)
LoadTemplate ==
    /\ ~prompt_call.loaded
    /\ \E t \in Templates, i \in PromptInputs :
          prompt_call' = [NoPrompt EXCEPT !.loaded = TRUE, !.template = t,
                                          !.inputs = i]
    /\ UNCHANGED <<req, fs, batch, batch_result, environ, client, gen_result,
                   extraction, analysis_call>>

\* ai_analyzer.py:160-167  the template's builder, or the fallback's when
\* the template was not found
BuildPrompt ==
    /\ prompt_call.loaded
    /\ ~prompt_call.built
    /\ prompt_call' =
          IF prompt_call.template.found
          THEN [prompt_call EXCEPT
                   !.built = TRUE, !.builder = "template",
                   !.fields = TemplateFields(prompt_call.inputs),
                   !.result = build_prompt_from_template(prompt_call.template,
                                                         prompt_call.inputs)]
          ELSE [prompt_call EXCEPT
                   !.built = TRUE, !.builder = "fallback",
                   !.fields = FallbackFields(prompt_call.inputs),
                   !.result = build_analysis_prompt(prompt_call.inputs)]
    /\ UNCHANGED <<req, fs, batch, batch_result, environ, client, gen_result,
                   extraction, analysis_call>>

NextPrompt == LoadTemplate \/ BuildPrompt

InitPrompt == InitIn({Env("", {}, TRUE)})

SpecPrompt == InitPrompt /\ [][NextPrompt]_vars

\* ------------------------------------- analyze_presentation called on its own
\* analyze_presentation(...) is called in the process environment, with a
\* template id that resolves or not, a prompt that builds or not, and a
\* provider call that returns or raises
AnalyzeCall ==
    /\ ~analysis_call.called
    /\ \E found \in BOOLEAN, raises \in BOOLEAN, call \in GenCalls :
          analysis_call' =
              [called |-> TRUE, template_found |-> found,
               prompt_raises |-> raises, call |-> call,
               result |-> analyze_presentation(environ, found, raises, call)]
    /\ UNCHANGED <<req, fs, batch, batch_result, environ, client, gen_result,
                   extraction, prompt_call>>

NextAnalysis == AnalyzeCall

InitAnalysis == InitIn(AllEnvs)

SpecAnalysis == InitAnalysis /\ [][NextAnalysis]_vars

\* ------------------------------------------------------------------ claims

\* the paths of the upload folder that request r wrote and that still exist
LeftBehind(r) == req[r].created \cap DOMAIN fs

\* C1: when analyze() has returned, on whatever path, every temporary file
\* the request saved or downloaded into the upload folder has been deleted.
C1_CleanOnEveryExit ==
    \A r \in Reqs :
        (req[r].route = "form" /\ req[r].pc = "done") => LeftBehind(r) = {}

\* the list of fetched resources a request holds is non-empty
HasResources(q) == ~q.fetched_resources.none /\ q.fetched_resources.list # <<>>

\* C2: generation is attempted only when the combined text is non-empty or
\* the list of fetched resources is non-empty, on both routes.
C2_GenerationNeedsContent ==
    \A r \in Reqs :
        req[r].analysis.generate_calls > 0 =>
            (req[r].combined # <<>> \/ HasResources(req[r]))

\* C3: a path one request writes is never written, read or deleted by
\* another request in flight.
C3_NoSharedPaths ==
    \A r1 \in Reqs, r2 \in Reqs :
        r1 # r2 => req[r1].created \cap req[r2].touched = {}

\* ---- fetch_multiple_urls (SpecFetch)
OkAttempts(st) == SelectSeq(st.attempts, LAMBDA a : a.ok)

FailedAttempts(st) == SelectSeq(st.attempts, LAMBDA a : ~a.ok)

\* the input entries whose fetch failed, as given, in input order
FailedInputs(st) ==
    [k \in 1..Len(FailedAttempts(st)) |-> st.urls[FailedAttempts(st)[k].pos]]

\* C4: a failing URL never ends the batch: the k-th GET is for the k-th
\* entry, every entry has had its one GET when the call returns, each entry
\* is then in exactly one of the two lists (their lengths add up to the
\* input's), and the failed entries are listed exactly as given.
C4_EveryUrlAttemptedOnce ==
    LET st == batch.st
    IN  /\ \A k \in 1..Len(st.attempts) :
              st.attempts[k].pos = k /\ st.attempts[k].url = Strip(st.urls[k].v)
        /\ Len(st.resources) + Len(st.failed_urls) = Len(st.attempts)
        /\ batch.pc = "returned" =>
              /\ Len(st.attempts) = Len(st.urls)
              /\ Len(batch_result.resources) + Len(batch_result.failed_urls)
                     = Len(st.urls)
              /\ Len(batch_result.resources) = Len(OkAttempts(st))
              /\ batch_result.failed_urls = FailedInputs(st)

\* a batch that went on after its first URL failed, the failed URL being
\* one with blanks around it
C4_Witness ==
    /\ batch.pc = "returned"
    /\ Len(batch.st.urls) = 3
    /\ ~batch.st.attempts[1].ok
    /\ batch.st.attempts[2].ok
    /\ batch_result.failed_urls[1].v # Strip(batch_result.failed_urls[1].v)

\* C5: resources and failed_urls are in input order: the k-th resource is
\* the page of the k-th input URL that was fetched, the k-th failed URL the
\* k-th input URL that failed; 3 URLs of which exactly 1 times out give 2
\* resources, 1 failed URL and success.
C5_ResourcesInInputOrder ==
    LET st == batch.st
        ok == OkAttempts(st)
    IN  /\ \A j \in 1..Len(st.attempts), k \in 1..Len(st.attempts) :
              j < k => st.attempts[j].pos < st.attempts[k].pos
        /\ Len(st.resources) = Len(ok)
        /\ \A k \in 1..Len(ok) :
              /\ st.resources[k].url = ok[k].url
              /\ ok[k].net.n <= 10000 => RunLen(st.resources[k].content) = ok[k].net.n
        /\ st.failed_urls = FailedInputs(st)
        /\ (/\ batch.pc = "returned"
            /\ Len(st.urls) = 3
            /\ Len(SelectSeq(st.attempts, LAMBDA a : a.net.kind = "timeout")) = 1
            /\ Len(ok) = 2)
           => /\ Len(batch_result.resources) = 2
              /\ Len(batch_result.failed_urls) = 1
              /\ batch_result.success
              /\ batch_result.resources = st.resources

\* 3 URLs, the second timing out, the other two fetched with different pages
C5_Witness ==
    /\ batch.pc = "returned"
    /\ Len(batch.st.urls) = 3
    /\ batch.st.attempts[1].ok
    /\ batch.st.attempts[2].net.kind = "timeout"
    /\ batch.st.attempts[3].ok
    /\ batch.st.attempts[1].url # batch.st.attempts[3].url
    /\ batch.st.attempts[1].net.n # batch.st.attempts[3].net.n
    /\ Len(batch_result.resources) = 2

\* C6: success is true exactly when a URL produced a resource or the input
\* was empty; a non-empty input whose URLs all failed gives success = false,
\* no resources, and failed_urls equal to the input.
C6_SuccessFlag ==
    LET st == batch.st
    IN  batch.pc = "returned" =>
            /\ batch_result.success <=> (OkAttempts(st) # <<>> \/ st.urls = <<>>)
            /\ (st.urls # <<>> /\ OkAttempts(st) = <<>>) =>
                   /\ ~batch_result.success
                   /\ batch_result.resources = <<>>
                   /\ batch_result.failed_urls = st.urls

\* two URLs given, both failed
C6_Witness ==
    /\ batch.pc = "returned"
    /\ Len(batch.st.urls) = 2
    /\ OkAttempts(batch.st) = <<>>
    /\ ~batch_result.success

\* C7: the content of a resource is the first min(n, 10000) characters of
\* the page's cleaned text of length n.
C7_ContentCapped ==
    LET st == batch.st
        ok == OkAttempts(st)
    IN  \A k \in 1..Len(st.resources) :
            LET n == ok[k].net.n
                content == st.resources[k].content
            IN  /\ k <= Len(ok)
                /\ RunLen(content) <= 10000
                /\ n <= 10000 => content = Run(n)
                /\ n > 10000 => content = Run(10000)

\* a page of 50,000 characters gave a content of 10,000
C7_Witness ==
    /\ batch.pc = "returned"
    /\ \E k \in 1..Len(batch_result.resources) :
          /\ OkAttempts(batch.st)[k].net.n = 50000
          /\ RunLen(batch_result.resources[k].content) = 10000

\* ---- the combined text (Spec)
\* the first position of token tok in text s, 0 when it does not occur
RECURSIVE IndexFrom(_, _, _)
IndexFrom(s, tok, i) ==
    IF i > Len(s) THEN 0 ELSE IF s[i] = tok THEN i ELSE IndexFrom(s, tok, i + 1)

IndexOf(s, tok) == IndexFrom(s, tok, 1)

\* text s holds, from position i on, the block of label with body
BlockAt(s, i, label, body) ==
    /\ i > 0
    /\ i + 1 + Len(body) <= Len(s)
    /\ SubSeq(s, i, i + 1 + Len(body)) = <<label, Sep>> \o body

\* C8: with a non-empty deck text and a non-empty transcript text, the
\* combined text holds the deck's labeled block before the transcript's,
\* whichever of the two came first in the request.
C8_DeckBeforeTranscript ==
    \A r \in Reqs :
        LET q == req[r]
            d == IndexOf(q.combined, LabelDeck)
            t == IndexOf(q.combined, LabelTranscript)
        IN  (q.has_combined /\ q.slide_content # <<>> /\ q.transcript_content # <<>>)
            => /\ BlockAt(q.combined, d, LabelDeck, q.slide_content)
               /\ BlockAt(q.combined, t, LabelTranscript, q.transcript_content)
               /\ d + 1 + Len(q.slide_content) < t

\* both texts extracted in a request that gave the transcript first
C8_Witness ==
    \E r \in Reqs :
        /\ req[r].has_combined
        /\ req[r].first_part = "transcript"
        /\ req[r].slide_content # <<>>
        /\ req[r].transcript_content # <<>>

\* C9: a missing source contributes no section: each label is in the combined
\* text iff its source's text is non-empty, and with neither the combined
\* text is empty.
C9_MissingSourceNoSection ==
    \A r \in Reqs :
        LET q == req[r]
        IN  q.has_combined =>
                /\ IndexOf(q.combined, LabelDeck) > 0 <=> q.slide_content # <<>>
                /\ IndexOf(q.combined, LabelTranscript) > 0
                       <=> q.transcript_content # <<>>
                /\ (q.slide_content = <<>> /\ q.transcript_content = <<>>)
                       => q.combined = <<>>

\* a request with a transcript and no deck got past line 270
C9_Witness ==
    \E r \in Reqs :
        /\ req[r].has_combined
        /\ req[r].slide_content = <<>>
        /\ req[r].transcript_content # <<>>
        /\ req[r].combined # <<>>

C11_BadProviderNamesValidSet ==
    /\ gen_result.n > 0 => client.provider \in Providers
    /\ (client # NoClient /\ client.provider \notin Providers) =>
          /\ ~client.constructed
          /\ client.raised = "ValueError"
          /\ {"anthropic", "openai", "google", "ollama", "xai"} \subseteq client.names

\* the credential variable the interface gives each provider
CredentialOf ==
    {<<"anthropic", "ANTHROPIC_API_KEY">>, <<"openai", "OPENAI_API_KEY">>,
     <<"google", "GOOGLE_API_KEY">>, <<"xai", "XAI_API_KEY">>}

LastFlash(q) == IF q.flashes = <<>> THEN "" ELSE q.flashes[Len(q.flashes)]

\* C13: when an extraction of a request reports no error and no text, the
\* request ends there (no URL is fetched, no analysis is called) and the
\* message flashed is the one for empty text, not the message the same
\* source path flashes when the extraction reports an error.
C13_EmptyTextOwnMessage ==
    \A r \in Reqs :
        LET q == req[r]
        IN  (q.route = "form" /\ q.extract_outcome = "empty") =>
                /\ q.pc = "done"
                /\ q.fetch.attempts = <<>>
                /\ q.analyze_calls = 0
                /\ LastFlash(q) # ""
                /\ LastFlash(q) # q.error_branch_msg

\* ---- extract_content (SpecExtract)
SupportedTypes == {"pdf", "pptx", "ppt", "txt", "vtt"}

\* the file the call was pointed at cannot be parsed: there is none, or the
\* parser cannot open it
ParseFails == ~Exists(fs, extraction.path) \/ ~fs[extraction.path].ok

\* C14: extract_content always returns a result.  When the type is not
\* supported or the file cannot be parsed, the result has an error message
\* and the text ''; for a valid document without any content under a
\* supported type it has the text '' and no error key.
C14_ExtractContentResult ==
    LET t == LowerTok(extraction.file_type)
        res == extraction.result
    IN  extraction.called =>
            /\ (t \notin SupportedTypes \/ ParseFails) =>
                   res.has_error /\ res.error # "" /\ res.text = <<>>
            /\ (t \in SupportedTypes /\ ~ParseFails
                   /\ fs[extraction.path].units = <<>>) =>
                   ~res.has_error /\ res.text = <<>>

\* extract_content was called with a type it does not know
C14_Witness ==
    /\ extraction.called
    /\ extraction.file_type = "exe"
    /\ ~ParseFails
    /\ extraction.result.has_error

\* ---- the VTT cleaner (SpecExtract)
\* the call went through the VTT branch of extract_from_transcript
CleanedAsVtt ==
    /\ extraction.called
    /\ LowerTok(extraction.file_type) \in {"txt", "vtt"}
    /\ ~ParseFails
    /\ ExtOf(extraction.path) = "vtt"

HasArrow(line) == \E i \in 1..Len(line) : line[i] = "-->"

\* a text the cleaner has nothing to remove from: no header, no timing
\* line, no note, no blank line, no blanks around a line
PlainCleanText(lines) ==
    \A i \in 1..Len(lines) :
        /\ lines[i] # <<>>
        /\ Strip(lines[i]) = lines[i]
        /\ lines[i][1] \notin {"WEBVTT", "NOTE"}
        /\ ~HasArrow(lines[i])

\* C15: plain text without header and timing lines comes out of the VTT
\* cleaner as it went in.
C15_CleanerKeepsPlainText ==
    (CleanedAsVtt /\ PlainCleanText(FileLines(fs[extraction.path]))) =>
        extraction.result.text = Join(FileLines(fs[extraction.path]), "\n")

\* line i is a cue identifier: the line right above a cue's timing line
IsCueIdentifier(lines, i) ==
    /\ i < Len(lines)
    /\ HasArrow(lines[i + 1])
    /\ Strip(lines[i]) # <<>>
    /\ ~HasArrow(lines[i])

\* the lines the format leaves once header, timing, cue identifier, note and
\* blank lines are taken out, in their order
RECURSIVE SpokenFrom(_, _)
SpokenFrom(lines, i) ==
    IF i > Len(lines) THEN <<>>
    ELSE LET line == Strip(lines[i])
         IN  (IF \/ line = <<>>
                 \/ line[1] \in {"WEBVTT", "NOTE"}
                 \/ HasArrow(line)
                 \/ IsCueIdentifier(lines, i)
              THEN <<>> ELSE <<line>>) \o SpokenFrom(lines, i + 1)

\* C16: the cleaner's output for a VTT file is its spoken lines, in order,
\* joined with newlines: the header, the timing lines, the cue identifiers
\* and the notes are gone and nothing else is.
C16_CleanerKeepsSpokenLines ==
    CleanedAsVtt =>
        extraction.result.text
            = Join(SpokenFrom(FileLines(fs[extraction.path]), 1), "\n")

\* ---- sources given as URLs (Spec)
\* the extension of the file a URL names
UrlExt(url) == ExtOf(Basename(UrlPath(url)))

\* C17: a transcript URL whose file name ends in txt or vtt, the server
\* answering, is downloaded and goes on to extraction as a transcript, as a
\* deck URL ending in pdf or pptx does as a deck.
C17_TranscriptUrlImported ==
    \A r \in Reqs :
        LET i == req[r].last_import
        IN  /\ (i.next = "transcript_extract" /\ i.net = "ok"
                  /\ HasDot(Basename(UrlPath(i.url))) /\ UrlExt(i.url) \in {"txt", "vtt"})
               => i.accepted
            /\ (i.next = "deck_extract" /\ i.net = "ok"
                  /\ HasDot(Basename(UrlPath(i.url))) /\ UrlExt(i.url) \in {"pdf", "pptx"})
               => i.accepted

\* ---- recognized extensions (Spec)
\* C18: an uploaded deck named with pdf, pptx or ppt (in any letter case)
\* passes the type check of the form handler and, once saved, is handed to
\* the slide-deck extractor under that extension; a deck with any other
\* extension is rejected and never saved.
C18_DeckExtensionsRecognized ==
    \A r \in Reqs :
        LET u == req[r].last_upload
            recognized == HasDot(u.name) /\ ExtOf(u.name) \in {"pdf", "pptx", "ppt"}
        IN  u.label = "_deck_" =>
                /\ recognized => u.accepted
                /\ (recognized /\ req[r].pc = "deck_extract") =>
                       req[r].file_ext \in {"pdf", "pptx", "ppt"}
                /\ ~recognized => (~u.accepted /\ ~u.saved /\ req[r].created = {})

\* ---- required fields (Spec)
\* a string that is empty or holds blanks only
IsBlank(v) == \A i \in 1..Len(v.v) : v.v[i] \in {" ", "\n"}

C20_ApiValidationIs400 ==
    \A r \in Reqs :
        (req[r].route = "api" /\ req[r].pc = "done" /\ req[r].analyze_calls = 0)
            => /\ req[r].status = 400
               /\ LastFlash(req[r]) # ""

\* the heading lines of a prompt, in the order they appear
IsHeading(line) == line # <<>> /\ line[1] \in {"## ", "### "}

Headings(lines) == SelectSeq(lines, IsHeading)

\* the headings a template asks for: each section's title, then the titles
\* of its subsections, section after section
RECURSIVE TemplateHeadings(_)
TemplateHeadings(sections) ==
    IF sections = <<>> THEN <<>>
    ELSE LET sec == sections[1]
         IN  (IF sec.has_title THEN << <<"## ", sec.title>> >> ELSE <<>>)
             \o [j \in 1..Len(sec.subsections) |->
                    <<"### ", sec.subsections[j].title>>]
             \o TemplateHeadings(Tail(sections))

\* C21: a prompt built from a template holds the template's sections exactly
\* once each and in the template's order, every section's subsections right
\* beneath it in their order, whatever the slide content, the GitHub URL and
\* the resources are.
C21_SectionsOnceInOrder ==
    (prompt_call.built /\ prompt_call.builder = "template"
     /\ ~prompt_call.result.raised)
        => Headings(prompt_call.result.lines)
               = TemplateHeadings(prompt_call.template.sections)

C21_Witness ==
    /\ prompt_call.built
    /\ prompt_call.builder = "template"
    /\ ~prompt_call.result.raised
    /\ Len(prompt_call.template.sections) = 2
    /\ Len(prompt_call.template.sections[1].subsections) = 2
    /\ prompt_call.template.sections[2].has_title
    /\ prompt_call.fields.has_slides
    /\ prompt_call.inputs.github_url # <<>>
    /\ Truthy(prompt_call.inputs.additional_resources)
    /\ Len(Headings(prompt_call.result.lines)) >= 4

HasLine(lines, l) == \E k \in 1..Len(lines) : lines[k] = l

\* every non-empty line of part is a line of lines
HasLines(lines, part) ==
    \A k \in 1..Len(part) : part[k] # <<>> => HasLine(lines, part[k])

\* C22: the fallback builder is the one used exactly when the template id
\* does not resolve, and it substitutes the same fields the template path
\* computes for the same inputs: content type, Presenters or Authors/Sources
\* label, GitHub line, resources block, resources note and resource focus.
C22_FallbackSameFields ==
    prompt_call.built =>
        /\ (prompt_call.builder = "fallback") <=> ~prompt_call.template.found
        /\ prompt_call.builder = "fallback" =>
              LET f == TemplateFields(prompt_call.inputs)
                  lines == prompt_call.result.lines
              IN  /\ ~prompt_call.result.raised
                  /\ prompt_call.fields = f
                  /\ HasLine(lines, <<"- ", f.label, ": ">>
                                    \o prompt_call.inputs.presenters)
                  /\ HasLines(lines, f.github_section)
                  /\ HasLines(lines, f.resources_section)
                  /\ HasLine(lines,
                        <<"You are a pre-sales engineering advisor analyzing ",
                          f.content_type, ".">>)
                  /\ \E k \in 1..Len(lines) :
                        /\ Len(lines[k]) = 5
                        /\ lines[k][2] = f.content_type
                        /\ lines[k][3] = f.resources_note
                        /\ lines[k][5] = f.resource_focus

C22_Witness ==
    /\ prompt_call.built
    /\ prompt_call.builder = "fallback"
    /\ ~prompt_call.fields.has_slides
    /\ prompt_call.fields.label = "Authors/Sources"
    /\ prompt_call.inputs.github_url # <<>>
    /\ prompt_call.fields.resource_focus = FocusOnResources
    /\ Len(prompt_call.inputs.additional_resources.list) = 2

\* C23: slides count as present exactly when the slide text is non-empty
\* after trimming; the content type is "presentation" exactly then and
\* "technical content" otherwise; the resource focus is the "Focus on ..."
\* sentence exactly when there are resources and no slides, the "complement
\* and expand" sentence exactly when there are resources and slides, and
\* empty exactly when there are no resources.
C23_ContentTypeAndFocus ==
    (prompt_call.built /\ prompt_call.builder = "template") =>
        LET f == prompt_call.fields
            slides == Strip(prompt_call.inputs.slide_content) # <<>>
            resources == Truthy(prompt_call.inputs.additional_resources)
        IN  /\ f.has_slides <=> slides
            /\ (f.content_type = "presentation") <=> slides
            /\ (f.content_type = "technical content") <=> ~slides
            /\ (f.resource_focus = FocusOnResources) <=> (resources /\ ~slides)
            /\ (f.resource_focus = ComplementSlides) <=> (resources /\ slides)
            /\ (f.resource_focus = "") <=> ~resources
            /\ ~prompt_call.result.raised =>
                  prompt_call.result.lines[1][4] = f.content_type

C23_Witness ==
    /\ prompt_call.built
    /\ prompt_call.builder = "template"
    /\ prompt_call.inputs.slide_content = <<" ">>
    /\ prompt_call.fields.content_type = "technical content"
    /\ prompt_call.fields.resource_focus = FocusOnResources
    /\ ~prompt_call.result.raised

\* C24: every resource fetch_multiple_urls returns has a title that is a
\* non-empty string, the page's own or else the URL: never None, never "".
C24_TitleNeverEmpty ==
    batch.pc = "returned" =>
        \A k \in 1..Len(batch_result.resources) :
            /\ ~batch_result.resources[k].title.none
            /\ batch_result.resources[k].title.s # <<>>

\* what one step of request r may do to the order of its work
SequentialStep(r) ==
    LET q == req[r]
        q1 == req'[r]
    IN  \* at most one call of analyze_presentation and of generate
        /\ q1.analyze_calls <= 1
        /\ q1.analysis.generate_calls <= 1
        \* the call comes when extraction and the fetch loop are over
        /\ q1.analyze_calls > q.analyze_calls =>
              /\ q.pc = "analyze"
              /\ FetchLoopDone(q.fetch)
              /\ Len(q.fetch.attempts) = Len(q.fetch.urls)
              /\ q.route = "form" => q.has_combined
        \* and nothing is extracted or fetched after it
        /\ q.analyze_calls >= 1 =>
              /\ q1.fetch = q.fetch
              /\ q1.combined = q.combined
              /\ q1.slide_content = q.slide_content
              /\ q1.transcript_content = q.transcript_content
        \* each GET is for the next entry of the list
        /\ \/ q1.fetch.attempts = q.fetch.attempts
           \/ /\ q.pc = "fetch"
              /\ Len(q1.fetch.attempts) = Len(q.fetch.attempts) + 1
              /\ SubSeq(q1.fetch.attempts, 1, Len(q.fetch.attempts))
                     = q.fetch.attempts
              /\ q1.fetch.attempts[Len(q1.fetch.attempts)].pos
                     = Len(q.fetch.attempts) + 1
           \/ q.pc # "fetch" /\ q1.fetch.attempts = <<>>
        \* one URL, fetched: one call of analyze_presentation, and one of
        \* generate when the answer is 200
        /\ (/\ q1.route = "api"
            /\ q1.pc = "done"
            /\ Len(q1.fetch.urls) = 1
            /\ Len(q1.fetch.attempts) = 1
            /\ q1.fetch.attempts[1].ok)
           => /\ q1.analyze_calls = 1
              /\ q1.status = 200 => q1.analysis.generate_calls = 1

\* C25: within a request nothing is retried or done out of turn:
\* analyze_presentation and generate are called at most once, only when
\* every extraction and every URL fetch of the request is over, the URLs
\* are fetched one at a time in list order, each once, and a JSON request
\* with one URL that is fetched calls analyze_presentation exactly once.
C25_SequentialNoRetries == [][\A r \in Reqs : SequentialStep(r)]_vars

C25_Witness ==
    \E r \in Reqs :
        /\ req[r].route = "api"
        /\ req[r].pc = "done"
        /\ req[r].status = 200
        /\ Len(req[r].fetch.urls) = 1
        /\ req[r].fetch.attempts[1].ok
        /\ req[r].analyze_calls = 1
        /\ req[r].analysis.generate_calls = 1

\* C26: the fallback prompt lists the same section headings in the same
\* order for every input: they do not depend on the GitHub URL, the slide
\* content or the resources.
C26_FallbackSectionsFixed ==
    (prompt_call.built /\ prompt_call.builder = "fallback") =>
        \A j \in PromptInputs :
            Headings(build_analysis_prompt(j).lines)
                = Headings(prompt_call.result.lines)

\* C27: analyze_presentation never raises.  A provider that is absent or
\* unsupported, a missing package or credential, a prompt that cannot be
\* built and a failed generation each come back as a result with success
\* false, an empty raw_response and the failure's message; generate is not
\* called when the client cannot be constructed; a result with success true
\* carries the provider and the model generate returned.
C27_AnalysisNeverRaises ==
    analysis_call.called =>
        LET r == analysis_call.result
            c == AIClient(environ.AI_PROVIDER, environ)
            g == generate(c, analysis_call.call)
        IN  /\ ~r.raised
            /\ ~r.success => r.raw_response = "" /\ r.error # ""
            /\ ~c.constructed =>
                  ~r.success /\ r.generate_calls = 0 /\ r.error = c.error
            /\ (c.constructed /\ analysis_call.prompt_raises) =>
                  ~r.success /\ r.generate_calls = 0
            /\ (c.constructed /\ ~analysis_call.prompt_raises
                /\ analysis_call.call.raises) =>
                  ~r.success /\ r.error = analysis_call.call.msg
            /\ r.success =>
                  /\ c.constructed
                  /\ r.generate_calls = 1
                  /\ r.provider = g.provider
                  /\ r.model = g.model
                  /\ r.raw_response = g.text

C27_Witness ==
    /\ analysis_call.called
    /\ environ.AI_PROVIDER = "openai"
    /\ environ.installed
    /\ environ.keys = {}
    /\ ~analysis_call.result.success
    /\ analysis_call.result.generate_calls = 0
    /\ analysis_call.result.error # ""

\* C28: a download that returns success false returns an empty file_path
\* and has left in the upload folder no file that it created.
C28_FailedDownloadLeavesNothing ==
    \A r \in Reqs :
        (req[r].last_import.next # "" /\ ~req[r].last_import.success) =>
            /\ req[r].last_import.file_path = <<>>
            /\ req[r].last_import.left = {}

\* content.split('\n'): the lines of a text
RECURSIVE SplitLines(_)
SplitLines(text) ==
    IF \A k \in 1..Len(text) : text[k] # "\n" THEN <<text>>
    ELSE LET k == CHOOSE j \in 1..Len(text) :
                      text[j] = "\n" /\ \A m \in 1..(j - 1) : text[m] # "\n"
         IN  <<SubSeq(text, 1, k - 1)>> \o SplitLines(SubSeq(text, k + 1, Len(text)))

\* C29: cleaning is idempotent: the cleaner's output for a VTT file, saved
\* as a VTT file and cleaned again, comes out unchanged.
C29_CleanerIdempotent ==
    CleanedAsVtt =>
        VttClean(SplitLines(extraction.result.text)) = extraction.result.text

\* C30: a 200 of /api/v1/analyze accounts for every submitted URL:
\* resources_fetched plus the number of URLs under warnings.failed_urls is
\* the number of URLs submitted, and the warnings entry is there exactly
\* when a URL failed; when every URL failed the answer is a 400 that lists
\* the failed URLs and analyze_presentation is never called.
C30_EveryUrlAccounted ==
    \A r \in Reqs :
        LET q == req[r]
            failed == SelectSeq(q.fetch.attempts, LAMBDA a : ~a.ok)
        IN  (q.route = "api" /\ q.pc = "done") =>
                /\ q.status = 200 =>
                      /\ q.body.resources_fetched + Len(q.body.failed_urls)
                             = Len(q.resource_urls)
                      /\ q.body.has_warnings <=> failed # <<>>
                      /\ q.body.has_warnings =>
                            q.body.failed_urls
                                = [k \in 1..Len(failed) |->
                                      q.resource_urls[failed[k].pos]]
                      /\ q.body.resources_fetched >= 1
                      /\ q.analyze_calls = 1
                /\ (/\ q.resource_urls # <<>>
                    /\ Len(q.fetch.attempts) = Len(q.resource_urls)
                    /\ Len(failed) = Len(q.resource_urls))
                   => /\ q.status = 400
                      /\ q.body.has_failed_urls
                      /\ q.body.failed_urls = q.resource_urls
                      /\ q.analyze_calls = 0
                      /\ q.analysis.generate_calls = 0

C30_Witness ==
    \E r \in Reqs :
        /\ req[r].route = "api"
        /\ req[r].pc = "done"
        /\ req[r].status = 200
        /\ Len(req[r].resource_urls) = 2
        /\ req[r].body.resources_fetched = 1
        /\ req[r].body.has_warnings
        /\ Len(req[r].body.failed_urls) = 1

====
